---------------------------- MODULE Spec2Model ----------------------------
(***************************************************************************)
(* Regulation-Compliance: the LangGraph agent team (Planner -> Researcher  *)
(* -> Validator), its query handler process_query and the Query Cache.     *)
(*                                                                         *)
(* Text is modelled as a sequence of tokens (a fence, a JSON value, prose, *)
(* whitespace); the fields of a found item that only matter by their size  *)
(* are modelled by their length in characters.  Time is counted in hours.  *)
(***************************************************************************)
EXTENDS Integers, Sequences, FiniteSets, TLC

VARIABLES
    now,            \* datetime.now(), in hours
    cache,          \* QueryCache: the files of cache_dir, key -> cache_data
    llm_instance,   \* _llm_instance is not None
    web,            \* what the search tools can find (the environment)
    pc,             \* position of the running process_query generator
    args,           \* arguments of the running process_query call, and the
                    \* cache directory as it was when the call was made
    state,          \* AgentState of the run
    current_node,   \* process_query: current_node
    final_state,    \* process_query: final_state
    stream,         \* the (message, payload) pairs yielded so far
    nodes_run,      \* graph nodes that have run, in order
    llm_invoked,    \* whether the run has called llm.invoke
    r,              \* locals of researcher_node
    v,              \* locals of validator_node
    http,           \* the running call of a fetch tool and the requests it issued
    history,        \* QueryHistory: the items of history_file, newest first
    ui,             \* the chat session of the UI and its running respond call
    op,             \* the last direct call of a QueryCache method and what it returned
    db,             \* the baseline database: regulations, verification logs, last call
    conv,           \* a ConversationHistory session
    threads         \* the threads calling get_llm, the lock and the client built

\* the agent team and the Query Cache
core == <<now, cache, llm_instance, web, pc, args, state, current_node,
          final_state, stream, nodes_run, llm_invoked, r, v>>

\* what lies outside of them
aux_but_threads == <<http, history, ui, op, db, conv>>

aux == <<aux_but_threads, threads>>

vars == <<core, aux>>

---------------------------------------------------------------------------
(* Bounds of the model *)

MaxNow == 48
TickHours == 24
MaxFindings == 2
MaxToolCalls == 2

(* Program constants *)

TTL_HOURS == 24
MAX_SEARCH_ITERATIONS == 15
TOP_N_TO_FETCH == 50
MAX_CONTENT_CHARS == 10000
TARGET_TOTAL_CHARS == 150000
MAX_CONTENT_LENGTH == 2000
MAX_RETRIES == 3

NULL == [null |-> TRUE]

Min(a, b) == IF a < b THEN a ELSE b

Last(s) == s[Len(s)]

RECURSIVE SumSeq(_)
SumSeq(s) == IF s = <<>> THEN 0 ELSE Head(s) + SumSeq(Tail(s))

---------------------------------------------------------------------------
(* Text as token sequences *)

FENCE_JSON == [t |-> "fence_json"]
FENCE == [t |-> "fence"]
WS == [t |-> "ws"]
PROSE == [t |-> "prose"]
BAD_JSON == [t |-> "{broken"]
Json(val) == [t |-> "json", val |-> val]

IsFence(tok) == tok = FENCE \/ tok = FENCE_JSON

Contains(s, tok) == \E i \in 1..Len(s) : s[i] = tok

FirstIndex(s, P(_)) ==
    IF \E i \in 1..Len(s) : P(s[i])
    THEN CHOOSE i \in 1..Len(s) : P(s[i]) /\ \A j \in 1..(i-1) : ~P(s[j])
    ELSE 0

\* s.split(tok)[1]: what follows the first tok, with later separators kept
AfterFirst(s, P(_)) ==
    LET i == FirstIndex(s, P) IN SubSeq(s, i + 1, Len(s))

\* s.split(fence)[0]: what precedes the first fence (the json fence starts with one)
BeforeFence(s) ==
    LET i == FirstIndex(s, IsFence)
    IN  IF i = 0 THEN s ELSE SubSeq(s, 1, i - 1)

RECURSIVE Strip(_)
Strip(s) ==
    IF s = <<>> THEN s
    ELSE IF Head(s) = WS THEN Strip(Tail(s))
    ELSE IF Last(s) = WS THEN Strip(SubSeq(s, 1, Len(s) - 1))
    ELSE s

\* json.loads: [ok, val]; ok = FALSE stands for json.JSONDecodeError
json_loads(s) ==
    LET x == Strip(s)
    IN  IF Len(x) = 1 /\ x[1].t = "json"
        THEN [ok |-> TRUE, val |-> x[1].val]
        ELSE [ok |-> FALSE, val |-> NULL]

IsObject(val) == "kind" \in DOMAIN val /\ val.kind = "object"


IsFenceJson(tok) == tok = FENCE_JSON

IsPlainFence(tok) == tok = FENCE

\* planner_node's "解析 JSON": only a json-tagged fence is unwrapped
planner_parse(content) ==
    IF Contains(content, FENCE_JSON)
    THEN json_loads(BeforeFence(AfterFirst(content, IsFenceJson)))
    ELSE json_loads(content)

\* validator_node's "解析 JSON": json-tagged fence, then any fence, then bare
validator_parse(content) ==
    IF Contains(content, FENCE_JSON)
    THEN json_loads(BeforeFence(AfterFirst(content, IsFenceJson)))
    ELSE IF Contains(content, FENCE)
    THEN json_loads(BeforeFence(AfterFirst(content, IsPlainFence)))
    ELSE json_loads(content)

\* "not content or not content.strip()"
IsEmptyContent(content) == Strip(content) = <<>>

---------------------------------------------------------------------------
(* What the LLM may answer *)

ARRAY == [kind |-> "array"]

PlanObject(cn, qs) ==
    [kind |-> "object", clarification_needed |-> cn, questions |-> qs]

EMPTY_DICT == PlanObject("absent", "absent")

PlannerValues ==
    { PlanObject("absent", "absent"), PlanObject("false", "absent"),
      PlanObject("true", "list"), ARRAY }

ReportObject(vr, disc) ==
    [kind |-> "object", verified_regulations |-> vr, disclaimer |-> disc]

ValidatorValues ==
    { ReportObject("absent", "absent"), ReportObject("list", "full"),
      ReportObject("list", "null"), ReportObject("list", "zh_only"), ARRAY }

\* the shapes in which a JSON value (or none) arrives
Shapes(val) ==
    { <<Json(val)>>, <<FENCE_JSON, Json(val), FENCE>>, <<FENCE, Json(val), FENCE>>,
      <<PROSE, FENCE_JSON, WS, Json(val), WS, FENCE, PROSE>> }

Unparsable == { <<BAD_JSON>>, <<FENCE_JSON, BAD_JSON, FENCE>>, <<PROSE, Json(ARRAY)>> }

Blank == { <<>>, <<WS>> }

PlannerContents == (UNION { Shapes(val) : val \in PlannerValues }) \cup Unparsable \cup Blank

ValidatorContents == (UNION { Shapes(val) : val \in ValidatorValues }) \cup Unparsable \cup Blank

\* llm.invoke: a response with content, or an exception
RAISE_VALUE == [raise |-> "ValueError"]
RAISE_OTHER == [raise |-> "Exception"]
Response(content) == [content |-> content]
Raises(resp) == "raise" \in DOMAIN resp

---------------------------------------------------------------------------
(* Query Cache: src/utils/cache.py *)

SEP == "appendix"

Queries == { <<"q1">>, <<"q1", " ", SEP, "c1">> }

Jurisdictions == { "auto" }

_make_key(query, jurisdiction) == query \o <<"|", jurisdiction>>

RECURSIVE StripStr(_)
StripStr(s) ==
    IF s = <<>> THEN s
    ELSE IF Head(s) = " " THEN StripStr(Tail(s))
    ELSE IF Last(s) = " " THEN StripStr(SubSeq(s, 1, Len(s) - 1))
    ELSE s

IsSep(tok) == tok = SEP

\* mutant: the whole query, stripped, is the key
cache_key_query_whole(query) == StripStr(query)

\* query.split(appendix)[0].strip()
cache_key_query(query) ==
    LET i == FirstIndex(query, IsSep)
    IN  StripStr(IF i = 0 THEN query ELSE SubSeq(query, 1, i - 1))

\* what the user can type into the chat
Messages == { <<"q1">>, <<"c1">> }

CacheKeys ==
    { _make_key(cache_key_query(q), j) : q \in Queries \cup Messages, j \in Jurisdictions }

\* mutant: an entry whose age equals the TTL counts as expired
Expired_at_ttl(entry, t) == t - entry.timestamp >= TTL_HOURS

Expired(entry, t) == t - entry.timestamp > TTL_HOURS

\* mutant: get leaves an expired entry in place
QueryCache_get_keep(c, query, jurisdiction, t) ==
    LET key == _make_key(query, jurisdiction)
    IN  IF c[key] = NULL \/ Expired(c[key], t) THEN [result |-> NULL, cache |-> c]
        ELSE [result |-> c[key].result, cache |-> c]

\* QueryCache.get: the result (or NULL) and the cache directory afterwards
QueryCache_get(c, query, jurisdiction, t) ==
    LET key == _make_key(query, jurisdiction)
    IN  IF c[key] = NULL THEN [result |-> NULL, cache |-> c]
        ELSE IF Expired(c[key], t)
        THEN [result |-> NULL, cache |-> [c EXCEPT ![key] = NULL]]
        ELSE [result |-> c[key].result, cache |-> c]

\* mutant: set writes only when the key has no entry
QueryCache_set_if_absent(c, query, jurisdiction, result, t) ==
    IF c[_make_key(query, jurisdiction)] # NULL THEN c
    ELSE [c EXCEPT ![_make_key(query, jurisdiction)] =
            [timestamp |-> t, query |-> query, jurisdiction |-> jurisdiction,
             result |-> result]]

\* QueryCache.set
QueryCache_set(c, query, jurisdiction, result, t) ==
    [c EXCEPT ![_make_key(query, jurisdiction)] =
        [timestamp |-> t, query |-> query, jurisdiction |-> jurisdiction,
         result |-> result]]


---------------------------------------------------------------------------
(* Found items: Python dicts, as records that may lack a key *)

\* item.get(key, default)
Get(item, key, default) == IF key \in DOMAIN item THEN item[key] ELSE default

\* dict update: the keys of upd overwrite those of item
Update(item, upd) == upd @@ item

\* a text of n characters of which esc need a backslash in JSON
Text(n, esc) == [len |-> n, esc |-> esc]

NO_TEXT == Text(0, 0)

\* the length of '\n... (內容已截斷)', whose newline JSON escapes
MARKER_LEN == 12

\* text[:n] + marker when longer than n (the cut falls before any escaped character)
Truncate(text, n) ==
    IF text.len > n THEN Text(n + MARKER_LEN, 1) ELSE text

\* text[:n]
Prefix(text, n) == IF text.len > n THEN Text(n, 0) ELSE text

UrlLen(u) == IF u = "" THEN 0 ELSE 30

\* mutant: only the url key is looked at
canonical_url_key_url(item) == Get(item, "url", "")

\* item.get('url') or item.get('href') or item.get('source_url')
canonical_url(item) ==
    IF Get(item, "url", "") # "" THEN item.url
    ELSE IF Get(item, "href", "") # "" THEN item.href
    ELSE Get(item, "source_url", "")

\* the "去重邏輯" loop of researcher_node
RECURSIVE dedup(_, _)
dedup(findings, seen_urls) ==
    IF findings = <<>> THEN <<>>
    ELSE LET item == Head(findings)
             url == canonical_url(item)
         IN  IF url # ""
             THEN IF url \in seen_urls
                  THEN dedup(Tail(findings), seen_urls)
                  ELSE <<item>> \o dedup(Tail(findings), seen_urls \cup {url})
             ELSE <<item>> \o dedup(Tail(findings), seen_urls)

\* what fetch_pdf_content / fetch_webpage does for one URL
FetchOutcomes ==
    { [status |-> "success", content |-> Text(n, 0)] : n \in {0, 500, 12000} }
    \cup { [status |-> "error"], [status |-> "raise"] }
    \cup { [status |-> "success", content |-> Text(500, 0), secs |-> 90] }

\* future.result(timeout=60)
RESULT_TIMEOUT_SECS == 60

\* how long the worker of a fetch runs: a slow server keeps it beyond the
\* timeouts of the HTTP client, which bound single reads only
secs_of(outcome) == Get(outcome, "secs", 1)

\* the worker of this item was still running RESULT_TIMEOUT_SECS after its start
overran(item, outcome) ==
    canonical_url(item) # "" /\ secs_of(outcome) > RESULT_TIMEOUT_SECS

\* what the worker of an item can meet: without a URL it returns before any fetch
worker_outcomes(item) ==
    IF canonical_url(item) = "" THEN { [status |-> "none"] } ELSE FetchOutcomes

\* of equal item copies the first stands for all of them
Distinct(s) == { i \in 1..Len(s) : \A j \in 1..(i - 1) : s[j] # s[i] }

RemoveAt(s, i) == SubSeq(s, 1, i - 1) \o SubSeq(s, i + 1, Len(s))

is_pdf(url) == url = "u.pdf"

fetch_single_content(item, outcome) ==
    LET url == canonical_url(item)
    IN  IF url = ""
        THEN Update(item, [full_content |-> NULL, content_fetched |-> FALSE,
                           fetch_error |-> "no_url"])
        ELSE IF outcome.status = "success"
        THEN Update(item, [full_content |-> Truncate(outcome.content, MAX_CONTENT_CHARS),
                           content_fetched |-> TRUE,
                           content_type |-> IF is_pdf(url) THEN "pdf" ELSE "webpage"])
        ELSE IF outcome.status = "error"
        THEN Update(item, [full_content |-> NULL, content_fetched |-> FALSE,
                           fetch_error |-> "failed"])
        ELSE Update(item, [full_content |-> NULL, content_fetched |-> FALSE,
                           fetch_error |-> "exception"])

\* mutant: the items beyond TOP_N_TO_FETCH are passed on as found
no_fetch_untouched(item) == item

\* mutant: the items beyond TOP_N_TO_FETCH are marked as fetched
no_fetch_as_fetched(item) == Update(item, [full_content |-> NULL, content_fetched |-> TRUE])

\* items beyond TOP_N_TO_FETCH
no_fetch(item) == Update(item, [full_content |-> NULL, content_fetched |-> FALSE])

MapSeq(s, Op(_)) == [i \in 1..Len(s) |-> Op(s[i])]

\* sequences over S of length at most n
SeqsUpTo(S, n) == UNION { [1..k -> S] : k \in 0..n }


---------------------------------------------------------------------------
(* validator_node: the character budget *)

TextOr(a, b) == IF a.len > 0 THEN a ELSE b

\* r.get('title') or r.get('name') or '未知'
title_of(item) ==
    TextOr(Get(item, "title", NO_TEXT), TextOr(Get(item, "name", NO_TEXT), Text(2, 0)))

\* r.get('url') or r.get('href') or ''
url_of(item) ==
    IF Get(item, "url", "") # "" THEN item.url ELSE Get(item, "href", "")

\* r.get('snippet') or r.get('body') or ''
snippet_of(item) == TextOr(Get(item, "snippet", NO_TEXT), Get(item, "body", NO_TEXT))

\* Phase 1: the trimmed form of a result with content
trim_with_content(item) ==
    LET full_content == Get(item, "full_content", NO_TEXT)
    IN  [title |-> title_of(item),
         url |-> url_of(item),
         snippet |-> Prefix(snippet_of(item), 300),
         content_type |-> Get(item, "content_type", "unknown"),
         full_content |-> IF full_content = NULL THEN NO_TEXT
                          ELSE Truncate(full_content, MAX_CONTENT_LENGTH)]

\* Phase 2: the trimmed form of a result without content
trim_without_content(item) ==
    [title |-> title_of(item),
     url |-> url_of(item),
     snippet |-> Prefix(snippet_of(item), 200),
     full_content |-> NULL]

StrLen(str) == IF str = "pdf" THEN 3 ELSE 7   \* 'pdf', 'webpage', 'unknown'

JsonText(text) == text.len + text.esc + 2

\* len(json.dumps(trimmed, ensure_ascii=False)): keys, ', ' and ': ' separators, braces
json_dumps_len(trimmed) ==
    IF "content_type" \in DOMAIN trimmed
    THEN 69 + JsonText(trimmed.title) + (UrlLen(trimmed.url) + 2)
            + JsonText(trimmed.snippet) + (StrLen(trimmed.content_type) + 2)
            + JsonText(trimmed.full_content)
    ELSE 51 + JsonText(trimmed.title) + (UrlLen(trimmed.url) + 2)
            + JsonText(trimmed.snippet) + 4

\* with indent=2, inside a list: a line break and four spaces before each key,
\* ',' between keys, a line break and two spaces before the closing brace
indented_len(trimmed) ==
    json_dumps_len(trimmed) + (IF "content_type" \in DOMAIN trimmed THEN 24 ELSE 20)

\* len(json.dumps(trimmed_results, ensure_ascii=False, indent=2))
json_dumps_indent_len(trimmed_results) ==
    IF trimmed_results = <<>> THEN 2
    ELSE 6 + SumSeq(MapSeq(trimmed_results, indented_len))
           + 4 * (Len(trimmed_results) - 1)

\* one budget loop: append items until one would pass TARGET_TOTAL_CHARS, then break
RECURSIVE take_within(_, _)
take_within(trimmed, total_chars) ==
    IF trimmed = <<>> THEN <<>>
    ELSE LET item_chars == json_dumps_len(Head(trimmed))
         IN  IF total_chars + item_chars > TARGET_TOTAL_CHARS THEN <<>>
             ELSE <<Head(trimmed)>> \o take_within(Tail(trimmed), total_chars + item_chars)

HasContent(item) == Get(item, "content_fetched", FALSE)

LacksContent(item) == ~HasContent(item)

trim_results(search_results) ==
    LET phase1 == take_within(MapSeq(SelectSeq(search_results, HasContent),
                                     trim_with_content), 0)
        total_chars == SumSeq(MapSeq(phase1, json_dumps_len))
        phase2 == take_within(MapSeq(SelectSeq(search_results, LacksContent),
                                     trim_without_content), total_chars)
    IN  phase1 \o phase2

---------------------------------------------------------------------------
(* validator_node: the report *)

STANDARD_DISCLAIMER == [zh |-> "standard_zh", en |-> "standard_en"]

\* "驗證必要欄位存在" and "確保免責聲明存在": defaults for the keys that are missing
with_defaults(validation) ==
    [validation_result |-> "llm",
     verified_regulations |->
        IF validation.verified_regulations = "absent" THEN <<>> ELSE <<"regulation">>,
     timeline |-> <<>>,
     compliance_checklist |-> <<>>,
     disclaimer |->
        IF validation.disclaimer = "absent" THEN STANDARD_DISCLAIMER
        ELSE IF validation.disclaimer = "null" THEN NULL
        ELSE IF validation.disclaimer = "zh_only" THEN [zh |-> "llm_zh"]
        ELSE [zh |-> "llm_zh", en |-> "llm_en"]]

\* "所有重試都失敗，建構基本結構"
\* mutant: the shell is built from nothing instead of the trimmed results
error_shell_bare(trimmed_results, last_error) ==
    [validation_result |-> "error",
     summary |-> last_error,
     verified_regulations |-> <<>>,
     timeline |-> <<>>,
     compliance_checklist |-> <<>>,
     warnings |-> <<>>,
     limitations |-> <<>>,
     confidence_score |-> "0.3",
     disclaimer |-> STANDARD_DISCLAIMER]

error_shell(trimmed_results, last_error) ==
    [validation_result |-> "error",
     summary |-> last_error,
     verified_regulations |-> trimmed_results,
     timeline |-> <<>>,
     compliance_checklist |-> <<>>,
     warnings |-> <<last_error>>,
     limitations |-> <<"incomplete">>,
     confidence_score |-> "0.3",
     disclaimer |-> STANDARD_DISCLAIMER]


---------------------------------------------------------------------------
(* process_query: the start of a call and the cache check *)

EMPTY_LIST == [list |-> <<>>]

IsDict(x) == "list" \notin DOMAIN x

NO_ERROR == ""

initial_state(query, jurisdiction) ==
    [query |-> query,
     jurisdiction |-> jurisdiction,
     planner_analysis |-> EMPTY_DICT,
     clarification_needed |-> FALSE,
     questions |-> <<>>,
     search_results |-> <<>>,
     validated_results |-> EMPTY_LIST,
     status |-> "starting",
     error |-> NO_ERROR]

NoResearcher == [iteration |-> 0, findings |-> <<>>, pending |-> 0, stopped |-> "",
                 items_to_fetch |-> <<>>, items_no_fetch |-> <<>>,
                 futures |-> <<>>, fetched_items |-> <<>>, late |-> {}]

NoValidator == [trimmed_results |-> <<>>, body_chars |-> 0,
                messages |-> <<>>, attempt |-> 0, content |-> <<>>,
                last_error |-> "", outcomes |-> <<>>]

\* yield (msg, payload)
Yield(msg, payload) == [msg |-> msg, payload |-> payload]

Idle == pc \in {"idle", "done"}

process_query(query, jurisdiction, skip_cache) ==
    /\ Idle
    /\ LET got == QueryCache_get(cache, cache_key_query(query), jurisdiction, now)
           hit == ~skip_cache /\ got.result # NULL
       IN  /\ cache' = IF skip_cache THEN cache ELSE got.cache
           /\ IF hit
              THEN /\ pc' = "done"
                   /\ stream' = << Yield("start", NULL), Yield("cache_hit", NULL),
                                   Yield("final_cached",
                                         [got.result EXCEPT !.from_cache = TRUE]) >>
              ELSE /\ pc' = "planner"
                   /\ stream' = << Yield("start", NULL), Yield("planner_enter", NULL),
                                   Yield("planner_region", NULL),
                                   Yield("planner_strategy", NULL) >>
    /\ args' = [query |-> query, jurisdiction |-> jurisdiction,
                skip_cache |-> skip_cache, cache_before |-> cache]
    /\ state' = initial_state(query, jurisdiction)
    /\ current_node' = "none"
    /\ final_state' = NULL
    /\ nodes_run' = <<>>
    /\ llm_invoked' = FALSE
    /\ r' = NoResearcher
    /\ v' = NoValidator
    /\ UNCHANGED <<now, llm_instance, web>>

\* time passes between two calls
Tick ==
    /\ UNCHANGED aux
    /\ Idle
    /\ now + TickHours <= MaxNow
    /\ now' = now + TickHours
    /\ UNCHANGED <<cache, llm_instance, web, pc, args, state, current_node,
                   final_state, stream, nodes_run, llm_invoked, r, v>>

\* mutant: the except clause yields its message without a payload
error_event_without_payload == Yield("error", NULL)

\* the except clause of process_query
error_event == Yield("error", [status |-> "error", error |-> "exception"])

---------------------------------------------------------------------------
(* planner_node *)

PLANNER_ERROR == "planner_error"

planner_failed(st) == [st EXCEPT !.error = PLANNER_ERROR, !.status = "error"]

\* the try block of planner_node on the LLM's response
planner_result(st, resp) ==
    IF Raises(resp) THEN planner_failed(st)
    ELSE LET parsed == planner_parse(resp.content)
         IN  IF ~parsed.ok THEN planner_failed(st)
             ELSE IF ~IsObject(parsed.val)
             THEN planner_failed([st EXCEPT !.planner_analysis = parsed.val])
             ELSE LET needed == parsed.val.clarification_needed = "true"
                  IN  [st EXCEPT
                         !.planner_analysis = parsed.val,
                         !.clarification_needed = needed,
                         !.questions = IF parsed.val.questions = "list"
                                       THEN <<"question">> ELSE <<>>,
                         !.status = IF needed THEN "needs_clarification"
                                    ELSE "ready_to_search"]

PlannerResponses == { Response(c) : c \in PlannerContents } \cup {RAISE_OTHER}

planner_node ==
    /\ UNCHANGED aux
    /\ pc = "planner"
    /\ nodes_run' = Append(nodes_run, "planner")
    /\ \/ \* get_llm() raises: no Azure OpenAI configuration
          /\ ~llm_instance
          /\ pc' = "done"
          /\ stream' = Append(stream, error_event)
          /\ UNCHANGED <<llm_instance, state, llm_invoked>>
       \/ \E resp \in PlannerResponses :
             /\ llm_instance' = TRUE
             /\ llm_invoked' = TRUE
             /\ state' = planner_result(state, resp)
             /\ pc' = "planner_event"
             /\ UNCHANGED stream
    /\ UNCHANGED <<now, cache, web, args, current_node, final_state, r, v>>

\* mutant: the edge from the planner to the researcher made unconditional
should_continue_always(st) == "researcher"

should_continue(st) ==
    IF st.clarification_needed THEN "end"
    ELSE IF st.error # NO_ERROR THEN "end"
    ELSE IF st.status = "ready_to_search" THEN "researcher"
    ELSE "end"

\* the event {planner: state} in the loop over graph.stream, then the conditional edge
planner_event ==
    /\ UNCHANGED aux
    /\ pc = "planner_event"
    /\ current_node' = "planner"
    /\ final_state' = state
    /\ pc' = IF should_continue(state) = "researcher" THEN "researcher" ELSE "finish"
    /\ UNCHANGED <<now, cache, llm_instance, web, args, state, stream, nodes_run,
                   llm_invoked, r, v>>


---------------------------------------------------------------------------
(* researcher_node *)

\* the status check at the top of the node, then the set-up of the search loop
researcher_node ==
    /\ UNCHANGED aux
    /\ pc = "researcher"
    /\ nodes_run' = Append(nodes_run, "researcher")
    /\ IF state.status # "ready_to_search"
       THEN pc' = "researcher_event" /\ UNCHANGED r
       ELSE pc' = "r_loop" /\ r' = NoResearcher
    /\ UNCHANGED <<now, cache, llm_instance, web, args, state, current_node,
                   final_state, stream, llm_invoked, v>>

\* mutant: the loop admits one pass more
in_range_inclusive(iteration) == iteration <= MAX_SEARCH_ITERATIONS

\* "for iteration in range(MAX_SEARCH_ITERATIONS)": another pass starts
in_range(iteration) == iteration < MAX_SEARCH_ITERATIONS

\* the tool calls of a response are worked off before the loop body ends
body_done(pending) == pending = 0

\* one llm_with_tools.invoke(messages) of the search loop
researcher_invoke ==
    /\ UNCHANGED aux
    /\ pc = "r_loop"
    /\ body_done(r.pending)
    /\ in_range(r.iteration)
    /\ llm_invoked' = TRUE
    /\ \/ \* the call raises: except ... break
          /\ r' = [r EXCEPT !.iteration = @ + 1, !.stopped = "exception"]
          /\ pc' = "r_post"
       \/ \* no tool calls: break
          /\ r' = [r EXCEPT !.iteration = @ + 1, !.stopped = "no_tool_calls"]
          /\ pc' = "r_post"
       \/ \E n \in 1..MaxToolCalls :
             /\ r' = [r EXCEPT !.iteration = @ + 1, !.pending = n]
             /\ pc' = "r_loop"
    /\ UNCHANGED <<now, cache, llm_instance, web, args, state, current_node,
                   final_state, stream, nodes_run, v>>

\* the result lists a tool call can give while the findings have room
ToolResults(room) == SeqsUpTo(web, room)

\* one tool call of the response: execute_tool_call, parse_tool_results, extend
researcher_tool_call ==
    /\ UNCHANGED aux
    /\ pc = "r_loop"
    /\ r.pending > 0
    /\ \E parsed_results \in ToolResults(MaxFindings - Len(r.findings)) :
          r' = [r EXCEPT !.findings = @ \o parsed_results, !.pending = @ - 1]
    /\ pc' = IF body_done(r.pending - 1) /\ ~in_range(r.iteration)
             THEN "r_post" ELSE "r_loop"
    /\ UNCHANGED <<now, cache, llm_instance, web, args, state, current_node,
                   final_state, stream, nodes_run, llm_invoked, v>>

\* after the loop: dedup, split at TOP_N_TO_FETCH, submit the fetches
researcher_dedup ==
    /\ UNCHANGED aux
    /\ pc = "r_post"
    /\ LET unique_findings == dedup(r.findings, {})
           n == Min(Len(unique_findings), TOP_N_TO_FETCH)
       IN  r' = [r EXCEPT
                   !.items_to_fetch = SubSeq(unique_findings, 1, n),
                   !.items_no_fetch =
                       MapSeq(SubSeq(unique_findings, n + 1, Len(unique_findings)),
                              no_fetch),
                   !.futures = SubSeq(unique_findings, 1, n),
                   !.fetched_items = <<>>]
    /\ pc' = "r_fetch"
    /\ UNCHANGED <<now, cache, llm_instance, web, args, state, current_node,
                   final_state, stream, nodes_run, llm_invoked, v>>

\* as_completed hands over one finished future, whenever its worker has ended;
\* r.futures holds the item copies of the futures not yet handed over, r.late
\* the items whose worker overran
fetch_complete ==
    /\ UNCHANGED aux
    /\ pc = "r_fetch"
    /\ \E idx \in Distinct(r.futures) :
       \E outcome \in worker_outcomes(r.futures[idx]) :
          r' = [r EXCEPT
                  !.futures = RemoveAt(@, idx),
                  !.fetched_items =
                      Append(@, fetch_single_content(r.futures[idx], outcome)),
                  !.late = IF overran(r.futures[idx], outcome)
                           THEN @ \cup {r.futures[idx]} ELSE @]
    /\ UNCHANGED <<now, cache, llm_instance, web, pc, args, state, current_node,
                   final_state, stream, nodes_run, llm_invoked, v>>

\* every future has been handed over: the node returns
researcher_return ==
    /\ UNCHANGED aux
    /\ pc = "r_fetch"
    /\ r.futures = <<>>
    /\ state' = [state EXCEPT
                   !.search_results = r.fetched_items \o r.items_no_fetch,
                   !.status = "ready_to_validate"]
    /\ pc' = "researcher_event"
    /\ UNCHANGED <<now, cache, llm_instance, web, args, current_node,
                   final_state, stream, nodes_run, llm_invoked, r, v>>

\* the event {researcher: state} in the loop over graph.stream
researcher_event ==
    /\ UNCHANGED aux
    /\ pc = "researcher_event"
    /\ stream' = stream \o << Yield("planner_done", NULL),
                              Yield("researcher_enter", NULL),
                              Yield("researcher_fetching", NULL),
                              Yield("researcher_cleaning", NULL) >>
    /\ current_node' = "researcher"
    /\ final_state' = state
    /\ pc' = "validator"
    /\ r' = NoResearcher
    /\ UNCHANGED <<now, cache, llm_instance, web, args, state, nodes_run,
                   llm_invoked, v>>


---------------------------------------------------------------------------
(* validator_node *)

\* the status check, the budgeted prompt and the initial conversation
validator_node ==
    /\ UNCHANGED aux
    /\ pc = "validator"
    /\ nodes_run' = Append(nodes_run, "validator")
    /\ IF state.status # "ready_to_validate"
       THEN pc' = "validator_event" /\ UNCHANGED v
       ELSE /\ pc' = "v_loop"
            /\ LET trimmed_results == trim_results(state.search_results)
               IN  v' = [trimmed_results |-> trimmed_results,
                         body_chars |-> json_dumps_indent_len(trimmed_results),
                         messages |-> <<"system", "human">>,
                         attempt |-> 0,
                         content |-> <<>>,
                         last_error |-> "",
                         outcomes |-> <<>>]
    /\ UNCHANGED <<now, cache, llm_instance, web, args, state, current_node,
                   final_state, stream, llm_invoked, r>>

ValidatorResponses ==
    { Response(c) : c \in ValidatorContents } \cup {RAISE_VALUE, RAISE_OTHER}

\* how one attempt of the retry loop ends:
\*   "return"   the report is stored and the node returns
\*   "json"     except json.JSONDecodeError
\*   "value"    except ValueError (the empty response raises one)
\*   "other"    except Exception
attempt_outcome(resp) ==
    IF Raises(resp) THEN (IF resp = RAISE_VALUE THEN "value" ELSE "other")
    ELSE IF IsEmptyContent(resp.content) THEN "value"
    ELSE LET parsed == validator_parse(resp.content)
         IN  IF ~parsed.ok THEN "json"
             ELSE IF ~IsObject(parsed.val) THEN "other"
             ELSE "return"

\* whether the loop goes on to another attempt after this outcome
retries(outcome, attempt) ==
    IF outcome = "other" THEN FALSE
    ELSE attempt < MAX_RETRIES - 1

\* mutant: the JSONDecodeError handler retries without the corrective messages
follow_up_none(messages, outcome, attempt) == messages

\* the messages the JSONDecodeError handler appends before a retry
follow_up(messages, outcome, attempt) ==
    IF outcome = "json" /\ attempt < MAX_RETRIES - 1
    THEN messages \o <<"ai", "human_fix_json">>
    ELSE messages

\* the locals after an attempt: v.attempt counts the attempts made, v.content is
\* the last response's content (kept when llm.invoke raises), v.outcomes is the
\* record of how each attempt ended
after_attempt(val, resp, outcome) ==
    [val EXCEPT
       !.attempt = @ + 1,
       !.content = IF Raises(resp) THEN @ ELSE resp.content,
       !.last_error = IF outcome = "return" THEN @ ELSE outcome,
       !.messages = follow_up(@, outcome, val.attempt),
       !.outcomes = Append(@, outcome)]

\* one pass of "for attempt in range(MAX_RETRIES)"
validator_attempt ==
    /\ UNCHANGED aux
    /\ pc = "v_loop"
    /\ llm_invoked' = TRUE
    /\ \E resp \in ValidatorResponses :
       LET outcome == attempt_outcome(resp)
       IN  /\ v' = after_attempt(v, resp, outcome)
           /\ IF outcome = "return"
              THEN /\ state' = [state EXCEPT
                          !.validated_results =
                              with_defaults(validator_parse(resp.content).val),
                          !.status = "completed"]
                   /\ pc' = "validator_event"
              ELSE IF retries(outcome, v.attempt)
              THEN /\ pc' = "v_loop"
                   /\ UNCHANGED state
              ELSE /\ state' = [state EXCEPT
                          !.validated_results =
                              error_shell(v.trimmed_results, outcome),
                          !.status = "completed"]
                   /\ pc' = "validator_event"
    /\ UNCHANGED <<now, cache, llm_instance, web, args, current_node,
                   final_state, stream, nodes_run, r>>

\* the event {validator: state} in the loop over graph.stream
validator_event ==
    /\ UNCHANGED aux
    /\ pc = "validator_event"
    /\ stream' = stream \o << Yield("researcher_done", NULL),
                              Yield("validator_enter", NULL),
                              Yield("validator_filter", NULL),
                              Yield("validator_extract", NULL),
                              Yield("validator_checklist", NULL) >>
    /\ current_node' = "validator"
    /\ final_state' = state
    /\ pc' = "finish"
    /\ v' = NoValidator
    /\ UNCHANGED <<now, cache, llm_instance, web, args, state, nodes_run,
                   llm_invoked, r>>


---------------------------------------------------------------------------
(* process_query: after the loop over graph.stream *)

\* mutant: the clarification payload without the questions
clarification_payload_bare(query, st, t) ==
    [status |-> "needs_clarification", query |-> query,
     questions |-> <<>>, analysis |-> st.planner_analysis, timestamp |-> t]

clarification_payload(query, st, t) ==
    [status |-> "needs_clarification", query |-> query,
     questions |-> st.questions, analysis |-> st.planner_analysis, timestamp |-> t]

\* mutant: a report the Validator could not produce is delivered as an error
final_result_degraded_is_error(query, st, t) ==
    [status |-> IF Get(st.validated_results, "validation_result", "") = "error"
                THEN "error" ELSE "success",
     query |-> query,
     original_query |-> cache_key_query(query),
     regulations |-> st.validated_results,
     timestamp |-> t, from_cache |-> FALSE]

\* "構建最終結果"
final_result(query, st, t) ==
    [status |-> "success", query |-> query,
     original_query |-> cache_key_query(query),
     regulations |-> st.validated_results,
     timestamp |-> t, from_cache |-> FALSE]

\* the "Validator 完成摘要" pair, yielded when validated_results is a dict
summary_pairs(st) ==
    IF ~st.clarification_needed /\ IsDict(st.validated_results)
    THEN << Yield("validator_done", NULL) >> ELSE <<>>

finish ==
    /\ UNCHANGED aux
    /\ pc = "finish"
    /\ pc' = "done"
    /\ \/ /\ final_state.clarification_needed
          /\ stream' = stream \o summary_pairs(final_state)
                \o << Yield("clarify", clarification_payload(args.query, final_state, now)) >>
          /\ UNCHANGED cache
       \/ /\ ~final_state.clarification_needed
          /\ LET result == final_result(args.query, final_state, now)
             IN  /\ cache' = QueryCache_set(cache, cache_key_query(args.query),
                                            args.jurisdiction, result, now)
                 /\ stream' = stream \o summary_pairs(final_state)
                       \o << Yield("final", result) >>
       \/ \* cache.set raises before the file is written
          /\ ~final_state.clarification_needed
          /\ stream' = stream \o summary_pairs(final_state) \o << error_event >>
          /\ UNCHANGED cache
    /\ UNCHANGED <<now, llm_instance, web, args, state, current_node,
                   final_state, nodes_run, llm_invoked, r, v>>

---------------------------------------------------------------------------
(* What the search tools can return *)

ItemA == [title |-> Text(40, 0), url |-> "u1", snippet |-> Text(120, 0)]
ItemB == [title |-> Text(40, 0), url |-> "", href |-> "u1", body |-> Text(400, 0)]
ItemC == [name |-> Text(20, 0), source_url |-> "u.pdf"]
ItemD == [title |-> Text(40, 0), snippet |-> Text(10, 0)]

SmallWeb == {}

---------------------------------------------------------------------------
(* Outside of the agent team: nothing is going on *)

NoHttp == [tool |-> "", url |-> NULL, pending |-> NULL, requested |-> <<>>,
           result |-> NULL]

NoUi == [calls |-> 0, running |-> FALSE, agents_initialized |-> FALSE,
         awaiting_confirmation |-> FALSE, original_query |-> <<>>,
         message |-> <<>>, actual_query |-> <<>>, history_before |-> <<>>]

NoOp == [name |-> "none"]

NoCall == [name |-> "none"]

\* the database before any regulation is stored
NoRun == [phase |-> "none"]

\* a session not yet opened
NoConv == [max_turns |-> 0, history |-> <<>>, appended |-> <<>>, open |-> FALSE]

\* no thread has called get_llm; instance 0 stands for None
NoThreads == [pc |-> [t \in {"t1", "t2"} |-> "idle"],
              got |-> [t \in {"t1", "t2"} |-> 0],
              outcome |-> [t \in {"t1", "t2"} |-> "none"],
              calls |-> [t \in {"t1", "t2"} |-> 0],
              lock |-> "free", instance |-> 0, constructed |-> 0,
              returned |-> {}, raises |-> 0, built_after_raise |-> FALSE,
              resets |-> 0]

NoDb == [regulations |-> [i \in {1, 2, 3} |-> NULL], logs |-> <<>>, day |-> 0,
         last |-> NoCall, handles |-> [h \in {"h1", "h2"} |-> NoCall],
         changes |-> 0, run |-> NoRun]

AuxInit ==
    /\ http = NoHttp
    /\ history = <<>>
    /\ ui = NoUi
    /\ op = NoOp
    /\ db = NoDb
    /\ conv = NoConv
    /\ threads = NoThreads

---------------------------------------------------------------------------
(* A sequence of process_query calls *)

CoreInit ==
    /\ now = 0
    /\ cache = [k \in CacheKeys |-> NULL]
    /\ llm_instance = FALSE
    /\ web = SmallWeb
    /\ pc = "idle"
    /\ args = [query |-> <<>>, jurisdiction |-> "", skip_cache |-> FALSE,
               cache_before |-> cache]
    /\ state = initial_state(<<>>, "")
    /\ current_node = "none"
    /\ final_state = NULL
    /\ stream = <<>>
    /\ nodes_run = <<>>
    /\ llm_invoked = FALSE
    /\ r = NoResearcher
    /\ v = NoValidator

Init == AuxInit /\ CoreInit

Next ==
    \/ \E query \in Queries, jurisdiction \in Jurisdictions, skip_cache \in BOOLEAN :
          process_query(query, jurisdiction, skip_cache) /\ UNCHANGED aux
    \/ Tick
    \/ planner_node
    \/ planner_event
    \/ researcher_node
    \/ researcher_invoke
    \/ researcher_tool_call
    \/ researcher_dedup
    \/ researcher_return
    \/ researcher_event
    \/ validator_node
    \/ validator_attempt
    \/ validator_event
    \/ finish

Spec == Init /\ [][Next]_vars

\* the steps of a started call: the generator is driven until it is exhausted
Run ==
    \/ planner_node
    \/ planner_event
    \/ researcher_node
    \/ researcher_invoke
    \/ researcher_tool_call
    \/ researcher_dedup
    \/ researcher_return
    \/ researcher_event
    \/ validator_node
    \/ validator_attempt
    \/ validator_event
    \/ finish

SpecFair == Spec /\ WF_vars(Run)


---------------------------------------------------------------------------
(* One run of researcher_node, entered after a Planner that is ready to search *)

SearchWeb == { ItemA, ItemB, ItemC, ItemD }

ready_to_search_state ==
    [initial_state(<<"q1">>, "auto") EXCEPT
        !.planner_analysis = PlanObject("false", "absent"),
        !.status = "ready_to_search"]

InitResearcher ==
    /\ AuxInit
    /\ now = 0
    /\ cache = [k \in CacheKeys |-> NULL]
    /\ llm_instance = TRUE
    /\ web = SearchWeb
    /\ pc = "researcher"
    /\ args = [query |-> <<"q1">>, jurisdiction |-> "auto", skip_cache |-> FALSE,
               cache_before |-> cache]
    /\ state = ready_to_search_state
    /\ current_node = "planner"
    /\ final_state = ready_to_search_state
    /\ stream = << Yield("start", NULL), Yield("planner_enter", NULL),
                   Yield("planner_region", NULL), Yield("planner_strategy", NULL) >>
    /\ nodes_run = <<"planner">>
    /\ llm_invoked = TRUE
    /\ r = NoResearcher
    /\ v = NoValidator

NextResearcher ==
    \/ researcher_node
    \/ researcher_invoke
    \/ researcher_tool_call
    \/ researcher_dedup
    \/ fetch_complete
    \/ researcher_return

SpecResearcher == InitResearcher /\ [][NextResearcher]_vars

---------------------------------------------------------------------------
(* One run of validator_node on the search results a Researcher can leave *)

MaxResults == 2

\* a found page with a very long title: two of them fill the budget exactly
ItemLong == [title |-> Text(74264, 0), url |-> "u2", snippet |-> Text(120, 0)]

FETCHED(n) == [status |-> "success", content |-> Text(n, 0)]

SearchResultPool ==
    { fetch_single_content(ItemA, FETCHED(500)),
      fetch_single_content(ItemA, FETCHED(12000)),
      fetch_single_content(ItemC, [status |-> "error"]),
      fetch_single_content(ItemD, [status |-> "error"]),
      fetch_single_content(ItemLong, FETCHED(500)),
      fetch_single_content(ItemLong, [status |-> "raise"]) }

InitValidator ==
    /\ AuxInit
    /\ now = 0
    /\ cache = [k \in CacheKeys |-> NULL]
    /\ llm_instance = TRUE
    /\ web = SearchWeb
    /\ pc = "validator"
    /\ args = [query |-> <<"q1">>, jurisdiction |-> "auto", skip_cache |-> FALSE,
               cache_before |-> cache]
    /\ \E search_results \in SeqsUpTo(SearchResultPool, MaxResults) :
          state = [ready_to_search_state EXCEPT
                     !.search_results = search_results,
                     !.status = "ready_to_validate"]
    /\ current_node = "researcher"
    /\ final_state = state
    /\ stream = <<>>
    /\ nodes_run = <<"planner", "researcher">>
    /\ llm_invoked = TRUE
    /\ r = NoResearcher
    /\ v = NoValidator

NextValidator ==
    \/ validator_node
    \/ validator_attempt

SpecValidator == InitValidator /\ [][NextValidator]_vars


---------------------------------------------------------------------------
(* The enrichment of researcher_node on more findings than TOP_N_TO_FETCH *)

FillerLen == 49

MaxTail == 2

\* findings without a URL, as many as FillerLen
Filler == [i \in 1..FillerLen |-> ItemD]

LongFindings == { Filler \o tail : tail \in SeqsUpTo(SearchWeb, MaxTail) }

InitEnrich ==
    /\ AuxInit
    /\ now = 0
    /\ cache = [k \in CacheKeys |-> NULL]
    /\ llm_instance = TRUE
    /\ web = SearchWeb
    /\ pc = "r_post"
    /\ args = [query |-> <<"q1">>, jurisdiction |-> "auto", skip_cache |-> FALSE,
               cache_before |-> cache]
    /\ state = ready_to_search_state
    /\ current_node = "planner"
    /\ final_state = ready_to_search_state
    /\ stream = << Yield("start", NULL), Yield("planner_enter", NULL),
                   Yield("planner_region", NULL), Yield("planner_strategy", NULL) >>
    /\ nodes_run = <<"planner", "researcher">>
    /\ llm_invoked = TRUE
    /\ \E findings \in LongFindings \cup SeqsUpTo(SearchWeb, MaxTail) :
          r = [NoResearcher EXCEPT !.iteration = 1, !.stopped = "no_tool_calls",
                                   !.findings = findings]
    /\ v = NoValidator

NextEnrich ==
    \/ researcher_dedup
    \/ fetch_complete
    \/ researcher_return

SpecEnrich == InitEnrich /\ [][NextEnrich]_vars

---------------------------------------------------------------------------
(* The fetch tools and the URL guard: src/agents/tools.py *)

MaxRedirects == 2

URL(scheme, host, path) == [scheme |-> scheme, host |-> host, path |-> path]

Urls ==
    { URL("https", "example.com", "/"), URL("https", "example.com", "/law.pdf"),
      URL("http", "8.8.8.8", "/"), URL("ftp", "example.com", "/"),
      URL("http", "", "/"), URL("http", "localhost", "/"),
      URL("http", "127.0.0.1", "/"), URL("https", "127.0.0.2", "/"),
      URL("http", "192.168.1.1", "/law.pdf"), URL("http", "169.254.169.254", "/") }

\* ipaddress.ip_address(hostname): the properties of the address, or a ValueError
NOT_AN_IP == [is_ip |-> FALSE]

IP(private, loopback, reserved, link_local) ==
    [is_ip |-> TRUE, is_private |-> private, is_loopback |-> loopback,
     is_reserved |-> reserved, is_link_local |-> link_local]

ip_address(hostname) ==
    IF hostname = "8.8.8.8" THEN IP(FALSE, FALSE, FALSE, FALSE)
    ELSE IF hostname \in {"127.0.0.1", "127.0.0.2"} THEN IP(TRUE, TRUE, FALSE, FALSE)
    ELSE IF hostname = "192.168.1.1" THEN IP(TRUE, FALSE, FALSE, FALSE)
    ELSE IF hostname = "169.254.169.254" THEN IP(TRUE, FALSE, FALSE, TRUE)
    ELSE NOT_AN_IP

Valid == [ok |-> TRUE, msg |-> ""]

Invalid(msg) == [ok |-> FALSE, msg |-> msg]

_validate_url(url) ==
    IF url.scheme \notin {"http", "https"} THEN Invalid("scheme")
    ELSE IF url.host = "" THEN Invalid("no_hostname")
    ELSE IF url.host \in {"localhost", "127.0.0.1", "0.0.0.0", "::1"}
    THEN Invalid("local")
    ELSE LET ip == ip_address(url.host)
         IN  IF ~ip.is_ip THEN Valid
             ELSE IF ip.is_private THEN Invalid("private")
             ELSE IF ip.is_loopback THEN Invalid("loopback")
             ELSE IF ip.is_reserved THEN Invalid("reserved")
             ELSE IF ip.is_link_local THEN Invalid("link_local")
             ELSE Valid

\* _json_response("error", {"url": url}, error=...)
error_response(url, error) == [status |-> "error", url |-> url, error |-> error]

success_response(url, content_type) ==
    [status |-> "success", url |-> url, content_type |-> content_type]

\* what a server answers to one request
Responses ==
    { [code |-> 200, pdf |-> b] : b \in BOOLEAN }
    \cup { [code |-> 404], [code |-> 0] }
    \cup { [code |-> 302, location |-> u] : u \in Urls }

\* the client sends a request only to an http(s) URL with a host
can_send(url) == url.scheme \in {"http", "https"} /\ url.host # ""

ends_with_pdf(url) == url.path = "/law.pdf"

\* what the tool makes of the final response
tool_result(tool, url, resp) ==
    IF resp.code # 200 THEN error_response(url, "http_error")
    ELSE IF tool = "fetch_webpage" THEN success_response(url, "text")
    ELSE IF ~resp.pdf /\ ~ends_with_pdf(url) THEN error_response(url, "not_pdf")
    ELSE success_response(url, "pdf")

\* the start of a tool call: the guard, then the HTTP client
tool_call(tool, url) ==
    /\ http.pending = NULL
    /\ LET checked == _validate_url(url)
       IN  http' = IF checked.ok
                   THEN [tool |-> tool, url |-> url, pending |-> url,
                         requested |-> <<>>, result |-> NULL]
                   ELSE [tool |-> tool, url |-> url, pending |-> NULL,
                         requested |-> <<>>,
                         result |-> error_response(url, checked.msg)]
    /\ UNCHANGED <<core, history, ui, op, db, conv, threads>>

fetch_webpage(url) == tool_call("fetch_webpage", url)

fetch_pdf_content(url) == tool_call("fetch_pdf_content", url)

\* client.get(url) with follow_redirects=True: one request and its response
client_get ==
    /\ http.pending # NULL
    /\ IF ~can_send(http.pending)
       THEN http' = [http EXCEPT !.pending = NULL,
                                 !.result = error_response(http.url, "exception")]
       ELSE \E resp \in Responses :
               LET requested == Append(http.requested, http.pending)
               IN  IF resp.code = 302
                   THEN IF Len(requested) > MaxRedirects
                        THEN http' = [http EXCEPT
                                        !.requested = requested,
                                        !.pending = NULL,
                                        !.result = error_response(http.url, "exception")]
                        ELSE http' = [http EXCEPT
                                        !.requested = requested,
                                        !.pending = resp.location]
                   ELSE http' = [http EXCEPT
                                   !.requested = requested,
                                   !.pending = NULL,
                                   !.result = tool_result(http.tool, http.url, resp)]
    /\ UNCHANGED <<core, history, ui, op, db, conv, threads>>

InitFetch == Init

NextFetch ==
    \/ \E url \in Urls : fetch_webpage(url)
    \/ \E url \in Urls : fetch_pdf_content(url)
    \/ client_get

SpecFetch == InitFetch /\ [][NextFetch]_vars

---------------------------------------------------------------------------
(* The chat UI: src/ui/simple_ui.py, src/ui/handlers.py, src/utils/history.py *)

MaxCalls == 1

\* QueryHistory.__init__: max_items
MAX_ITEMS == 50

\* the jurisdiction the UI passes with every query
UI_JURISDICTION == "auto"

\* mutant: add leaves the history file as it is
QueryHistory_add_nothing(h, query, result, t, item_id) == h

\* the first eight characters of a uuid4: two adds may draw the same one
ItemIds == {"i1", "i2"}

\* mutant: add puts the new item behind the stored ones
QueryHistory_add_behind(h, query, result, t, item_id) ==
    LET item == [id |-> item_id, timestamp |-> t, query |-> cache_key_query(query),
                 full_query |-> query, result |-> result]
        longer == h \o <<item>>
    IN  SubSeq(longer, 1, Min(Len(longer), MAX_ITEMS))

\* QueryHistory.add: the list it saves; it returns item_id
QueryHistory_add(h, query, result, t, item_id) ==
    LET item == [id |-> item_id, timestamp |-> t, query |-> cache_key_query(query),
                 full_query |-> query, result |-> result]
        longer == <<item>> \o h
    IN  SubSeq(longer, 1, Min(Len(longer), MAX_ITEMS))

\* QueryHistory.get: the first stored item with the id, else NULL
QueryHistory_get(h, item_id) ==
    IF \E i \in 1..Len(h) : h[i].id = item_id
    THEN h[CHOOSE i \in 1..Len(h) :
             /\ h[i].id = item_id
             /\ \A j \in 1..(i - 1) : h[j].id # item_id]
    ELSE NULL

\* QueryHistory.delete: the list afterwards
QueryHistory_delete(h, item_id) == SelectSeq(h, LAMBDA item : item.id # item_id)

\* f"{original}\n\n【用戶補充說明】\n{message}" when a confirmation is awaited
actual_query(session, message) ==
    IF session.awaiting_confirmation /\ session.original_query # <<>>
    THEN session.original_query \o <<SEP>> \o message
    ELSE message

\* respond: a message is sent; the handler starts process_query, or gives up
\* when it cannot initialize the agents
respond(message, skip_cache) ==
    /\ ~ui.running
    /\ ui.calls < MaxCalls
    /\ \/ /\ ~ui.agents_initialized
          /\ Idle
          /\ ui' = [ui EXCEPT !.calls = @ + 1, !.awaiting_confirmation = FALSE,
                              !.message = message,
                              !.actual_query = actual_query(ui, message)]
          /\ UNCHANGED <<core, http, history, op, db, conv, threads>>
       \/ /\ process_query(actual_query(ui, message), UI_JURISDICTION, skip_cache)
          /\ ui' = [ui EXCEPT !.calls = @ + 1, !.running = TRUE,
                              !.agents_initialized = TRUE,
                              !.awaiting_confirmation = FALSE,
                              !.message = message,
                              !.actual_query = actual_query(ui, message),
                              !.history_before = history]
          /\ UNCHANGED <<http, history, op, db, conv, threads>>

\* respond: the loop body for the tuple that carries a result
respond_result ==
    /\ ui.running
    /\ pc = "done"
    /\ LET result == Last(stream).payload
       IN  IF result.status = "needs_clarification"
           THEN /\ ui' = [ui EXCEPT !.running = FALSE,
                                    !.awaiting_confirmation = TRUE,
                                    !.original_query = ui.message]
                /\ UNCHANGED history
           ELSE /\ ui' = [ui EXCEPT !.running = FALSE,
                                    !.awaiting_confirmation = FALSE]
                /\ \E item_id \in ItemIds :
                      history' = IF result.status = "success"
                                 THEN QueryHistory_add(history, ui.actual_query,
                                                       result, now, item_id)
                                 ELSE history
    /\ UNCHANGED <<core, http, op, db, conv, threads>>

OldItem == [id |-> "i0", timestamp |-> 0, query |-> <<"q0">>, full_query |-> <<"q0">>,
            result |-> NULL]

FullHistory == [i \in 1..MAX_ITEMS |-> OldItem]

InitUI ==
    /\ CoreInit
    /\ http = NoHttp
    /\ ui = NoUi
    /\ op = NoOp
    /\ db = NoDb
    /\ conv = NoConv
    /\ threads = NoThreads
    /\ history \in {<<>>, FullHistory}

NextUI ==
    \/ \E message \in Messages, skip_cache \in BOOLEAN : respond(message, skip_cache)
    \/ respond_result
    \/ planner_node
    \/ planner_event
    \/ researcher_node
    \/ researcher_invoke
    \/ researcher_tool_call
    \/ researcher_dedup
    \/ researcher_return
    \/ researcher_event
    \/ validator_node
    \/ validator_attempt
    \/ validator_event
    \/ finish

SpecUI == InitUI /\ [][NextUI]_vars

---------------------------------------------------------------------------
(* Direct calls of the QueryCache methods: src/utils/cache.py *)

CacheQueries == { <<"q1">>, <<"c1">> }

Payloads == { [status |-> "success", regulations |-> EMPTY_LIST],
              [status |-> "success", regulations |-> [summary |-> "s"]] }

\* QueryCache.list_all: the ids listed and the cache directory afterwards
QueryCache_list_all(c, t) ==
    [result |-> { k \in DOMAIN c : c[k] # NULL /\ ~Expired(c[k], t) },
     cache |-> [k \in DOMAIN c |-> IF c[k] # NULL /\ Expired(c[k], t)
                                   THEN NULL ELSE c[k]]]

cache_get(query, jurisdiction) ==
    /\ LET got == QueryCache_get(cache, query, jurisdiction, now)
       IN  /\ cache' = got.cache
           /\ op' = [name |-> "get", query |-> query, jurisdiction |-> jurisdiction,
                     at |-> now, before |-> cache, returned |-> got.result]
    /\ UNCHANGED <<now, llm_instance, web, pc, args, state, current_node,
                   final_state, stream, nodes_run, llm_invoked, r, v,
                   http, history, ui, db, conv, threads>>

cache_set(query, jurisdiction, result) ==
    /\ cache' = QueryCache_set(cache, query, jurisdiction, result, now)
    /\ op' = [name |-> "set", query |-> query, jurisdiction |-> jurisdiction,
              at |-> now, before |-> cache, result |-> result,
              returned |-> _make_key(query, jurisdiction)]
    /\ UNCHANGED <<now, llm_instance, web, pc, args, state, current_node,
                   final_state, stream, nodes_run, llm_invoked, r, v,
                   http, history, ui, db, conv, threads>>

cache_list_all ==
    /\ LET got == QueryCache_list_all(cache, now)
       IN  /\ cache' = got.cache
           /\ op' = [name |-> "list_all", at |-> now, before |-> cache,
                     returned |-> got.result]
    /\ UNCHANGED <<now, llm_instance, web, pc, args, state, current_node,
                   final_state, stream, nodes_run, llm_invoked, r, v,
                   http, history, ui, db, conv, threads>>

InitCache == Init

NextCache ==
    \/ \E query \in CacheQueries, jurisdiction \in Jurisdictions :
          cache_get(query, jurisdiction)
    \/ \E query \in CacheQueries, jurisdiction \in Jurisdictions, result \in Payloads :
          cache_set(query, jurisdiction, result)
    \/ cache_list_all
    \/ Tick

SpecCache == InitCache /\ [][NextCache]_vars

---------------------------------------------------------------------------
(* A get and a set of the same key running in two threads.  The steps are the
   file system calls of the two methods: exists, read_text and unlink in get;
   open("w"), which truncates, and the write at close in set. *)

\* a file opened for writing and not yet written
TRUNCATED == [truncated |-> TRUE]

NoGet == [pc |-> "idle", returned |-> NULL, raised |-> FALSE]

NoSet == [pc |-> "idle", linked |-> FALSE, result |-> NULL]

RaceFrame ==
    UNCHANGED <<now, llm_instance, web, pc, args, state, current_node,
                final_state, stream, nodes_run, llm_invoked, r, v,
                http, history, ui, db, conv, threads>>

Racing == op.name = "race"

\* line 53: if not cache_file.exists(): return None
get_exists ==
    /\ Racing
    /\ op.get.pc = "idle"
    /\ op' = [op EXCEPT !.get = IF cache[op.key] = NULL
                                THEN [@ EXCEPT !.pc = "done"]
                                ELSE [@ EXCEPT !.pc = "line57"]]
    /\ UNCHANGED cache
    /\ RaceFrame

\* lines 57-66: read and parse the file, compare its age with the TTL
get_read ==
    /\ Racing
    /\ op.get.pc = "line57"
    /\ LET file == cache[op.key]
       IN  op' = [op EXCEPT !.get =
                IF file = NULL THEN [@ EXCEPT !.pc = "done", !.raised = TRUE]
                ELSE IF file = TRUNCATED THEN [@ EXCEPT !.pc = "line69"]
                ELSE IF Expired(file, now) THEN [@ EXCEPT !.pc = "line63"]
                ELSE [@ EXCEPT !.pc = "done", !.returned = file.result]]
    /\ UNCHANGED cache
    /\ RaceFrame

\* lines 63 and 69: cache_file.unlink(); return None
get_unlink ==
    /\ Racing
    /\ op.get.pc \in {"line63", "line69"}
    /\ cache' = [cache EXCEPT ![op.key] = NULL]
    /\ op' = [op EXCEPT !.get.pc = "done",
                        !.get.raised = (cache[op.key] = NULL),
                        !.set.linked = FALSE]
    /\ RaceFrame

\* lines 93-96: write_text opens the file for writing
set_open(result) ==
    /\ Racing
    /\ op.set.pc = "idle"
    /\ cache' = [cache EXCEPT ![op.key] = TRUNCATED]
    /\ op' = [op EXCEPT !.set = [pc |-> "open", linked |-> TRUE, result |-> result]]
    /\ RaceFrame

\* lines 93-98: the text reaches the file the thread has opened
set_write ==
    /\ Racing
    /\ op.set.pc = "open"
    /\ cache' = IF op.set.linked
                THEN QueryCache_set(cache, op.query, op.jurisdiction,
                                    op.set.result, now)
                ELSE cache
    /\ op' = [op EXCEPT !.set.pc = "done"]
    /\ RaceFrame

InitRace ==
    /\ CoreInit
    /\ http = NoHttp
    /\ history = <<>>
    /\ ui = NoUi
    /\ db = NoDb
    /\ conv = NoConv
    /\ threads = NoThreads
    /\ \E query \in CacheQueries, jurisdiction \in Jurisdictions :
          op = [name |-> "race", query |-> query, jurisdiction |-> jurisdiction,
                key |-> _make_key(query, jurisdiction), before |-> cache,
                get |-> NoGet, set |-> NoSet]

NotStarted == Racing /\ op.get.pc = "idle" /\ op.set.pc = "idle"

\* an earlier, completed set before the two threads start
earlier_set(query, jurisdiction, result) ==
    /\ NotStarted
    /\ cache' = QueryCache_set(cache, query, jurisdiction, result, now)
    /\ op' = [op EXCEPT !.before = cache']
    /\ RaceFrame

NextRace ==
    \/ \E query \in CacheQueries, jurisdiction \in Jurisdictions, result \in Payloads :
          earlier_set(query, jurisdiction, result)
    \/ NotStarted /\ Tick
    \/ get_exists
    \/ get_read
    \/ get_unlink
    \/ \E result \in Payloads : set_open(result)
    \/ set_write

SpecRace == InitRace /\ [][NextRace]_vars

---------------------------------------------------------------------------
(* Verification records of the baseline database: src/database/manager.py.
   Scores are in tenths (0.3 is 3), times in days. *)

MaxDay == 93
DayStep == 31
MaxVerifications == 4

RegulationIds == {1, 2, 3}

OfficialUrls == {"none", "gov", "other"}

\* a DateTime column: empty while null, else the day it holds
NOT_SET == <<>>

At(day) == <<day>>

Sources == {"manual", "search"}

\* the row add_regulation builds, the other columns at their defaults
RegulationBaseline(name, source, official_url, is_mandatory) ==
    [name |-> name, is_verified |-> (source = "manual"), official_url |-> official_url,
     is_mandatory |-> is_mandatory, is_active |-> TRUE,
     confidence_score |-> (IF source = "manual" THEN 5 ELSE 3), last_verified_at |-> NOT_SET, last_found_at |-> NOT_SET,
     found_count |-> 0, not_found_count |-> 0]

Clamp(score) == IF score < 0 THEN 0 ELSE IF score > 10 THEN 10 ELSE score

\* mutant: the found_count bonus needs more than three finds
calculate_confidence_over_three(regulation, today) ==
    LET found == regulation.last_found_at # NOT_SET
        days_since_found == IF found THEN today - regulation.last_found_at[1] ELSE 0
    IN  Clamp(  (IF regulation.is_verified THEN 3 ELSE 0)
              + (CASE regulation.official_url = "gov" -> 3
                   [] regulation.official_url = "other" -> 1
                   [] OTHER -> 0)
              + (IF found /\ days_since_found <= 30 THEN 2
                 ELSE IF found /\ days_since_found <= 90 THEN 1 ELSE 0)
              + (IF regulation.found_count > 3 THEN 2 ELSE 0)
              - (IF found /\ days_since_found > 90 THEN 3 ELSE 0)
              - (IF regulation.not_found_count >= 3 THEN 2 ELSE 0))

calculate_confidence(regulation, today) ==
    LET found == regulation.last_found_at # NOT_SET
        days_since_found == IF found THEN today - regulation.last_found_at[1] ELSE 0
    IN  Clamp(  (IF regulation.is_verified THEN 3 ELSE 0)
              + (CASE regulation.official_url = "gov" -> 3
                   [] regulation.official_url = "other" -> 1
                   [] OTHER -> 0)
              + (IF found /\ days_since_found <= 30 THEN 2
                 ELSE IF found /\ days_since_found <= 90 THEN 1 ELSE 0)
              + (IF regulation.found_count >= 3 THEN 2 ELSE 0)
              - (IF found /\ days_since_found > 90 THEN 3 ELSE 0)
              - (IF regulation.not_found_count >= 3 THEN 2 ELSE 0))

\* mutant: the log row carries the new confidence in both columns
VerificationLog_new_only(regulation_id, was_found, old_confidence, new_confidence) ==
    [regulation_id |-> regulation_id, verification_type |-> "search",
     was_found |-> was_found, old_confidence |-> new_confidence,
     new_confidence |-> new_confidence, verified_by |-> "system"]

VerificationLog(regulation_id, was_found, old_confidence, new_confidence) ==
    [regulation_id |-> regulation_id, verification_type |-> "search",
     was_found |-> was_found, old_confidence |-> old_confidence,
     new_confidence |-> new_confidence, verified_by |-> "system"]

\* mutant: record_verification leaves last_verified_at as it was
verified_unstamped(regulation, was_found, today) ==
    LET counted == IF was_found
                   THEN [regulation EXCEPT !.last_found_at = At(today),
                                           !.found_count = @ + 1]
                   ELSE [regulation EXCEPT !.not_found_count = @ + 1]
    IN  [counted EXCEPT !.confidence_score = calculate_confidence(counted, today)]

\* the regulation row after the updates of record_verification
verified(regulation, was_found, today) ==
    LET counted == IF was_found
                   THEN [regulation EXCEPT !.last_found_at = At(today),
                                           !.found_count = @ + 1]
                   ELSE [regulation EXCEPT !.not_found_count = @ + 1]
        stamped == [counted EXCEPT !.last_verified_at = At(today)]
    IN  [stamped EXCEPT !.confidence_score = calculate_confidence(stamped, today)]

\* mutant: the lookup skips soft-deleted rows
matching_active(regulations, name) ==
    { i \in DOMAIN regulations : /\ regulations[i] # NULL
                                 /\ regulations[i].name = name
                                 /\ regulations[i].is_active }

\* the ids of the rows a filter on the identity matches; name stands for the
\* identity (name, country_code, industry_code)
matching(regulations, name) ==
    { i \in DOMAIN regulations : regulations[i] # NULL /\ regulations[i].name = name }

\* the next autoincrement id
next_id(regulations) ==
    Cardinality({ i \in DOMAIN regulations : regulations[i] # NULL }) + 1

add_regulation(name, source, official_url, is_mandatory) ==
    /\ next_id(db.regulations) \in DOMAIN db.regulations
    /\ LET existing == matching(db.regulations, name)
           regulation_id == IF existing # {}
                            THEN CHOOSE i \in existing : \A j \in existing : i <= j
                            ELSE next_id(db.regulations)
           regulation == IF existing # {} THEN db.regulations[regulation_id]
                         ELSE RegulationBaseline(name, source, official_url, is_mandatory)
       IN  db' = [db EXCEPT !.regulations[regulation_id] = regulation,
                           !.last = [name |-> "add_regulation",
                                     regulation_id |-> regulation_id,
                                     identity |-> name,
                                     before |-> db.regulations,
                                     returned |-> regulation]]
    /\ UNCHANGED <<core, http, history, ui, op, conv, threads>>

record_verification(regulation_id, was_found) ==
    /\ Len(db.logs) < MaxVerifications
    /\ LET regulation == db.regulations[regulation_id]
           call == [name |-> "record_verification", regulation_id |-> regulation_id,
                    was_found |-> was_found, at |-> db.day,
                    before |-> [regulations |-> db.regulations, logs |-> db.logs]]
       IN  IF regulation = NULL
           THEN db' = [db EXCEPT !.last = call @@ [raised |-> TRUE]]
           ELSE LET after == verified(regulation, was_found, db.day)
                IN  db' = [db EXCEPT
                             !.regulations[regulation_id] = after,
                             !.logs = Append(@, VerificationLog(regulation_id, was_found,
                                                 regulation.confidence_score,
                                                 after.confidence_score)),
                             !.last = call @@ [raised |-> FALSE]]
    /\ UNCHANGED <<core, http, history, ui, op, conv, threads>>

days_pass ==
    /\ db.day + DayStep <= MaxDay
    /\ db' = [db EXCEPT !.day = @ + DayStep, !.last = [name |-> "days_pass"]]
    /\ UNCHANGED <<core, http, history, ui, op, conv, threads>>

InitDb == Init

\* Two BaselineManager handles, each with a session of its own (get_session
\* makes a new engine and session per handle).  A call reads the row into the
\* session, changes its copy, and commit writes the changed columns and the
\* log row in one transaction.
Handles == {"h1", "h2"}

Columns == {"name", "is_verified", "official_url", "is_mandatory", "is_active",
            "confidence_score", "last_verified_at", "last_found_at", "found_count",
            "not_found_count"}

\* the UPDATE a flush emits: only the columns the session changed
flush(stored, loaded, changed) ==
    [c \in Columns |-> IF changed[c] # loaded[c] THEN changed[c] ELSE stored[c]]

InFlight == Cardinality({ h \in Handles : db.handles[h] # NoCall })

\* record_verification up to the read of the regulation row
verification_read(h, regulation_id, was_found) ==
    /\ db.handles[h] = NoCall
    /\ Len(db.logs) + InFlight < MaxVerifications
    /\ db.regulations[regulation_id] # NULL
    /\ db' = [db EXCEPT !.handles[h] =
                            [name |-> "record_verification",
                             regulation_id |-> regulation_id, was_found |-> was_found,
                             row |-> db.regulations[regulation_id]],
                        !.last = [name |-> "verification_read"]]
    /\ UNCHANGED <<core, http, history, ui, op, conv, threads>>

\* record_verification from the update of the row to the commit
verification_commit(h) ==
    /\ db.handles[h] # NoCall
    /\ LET call == db.handles[h]
           after == verified(call.row, call.was_found, db.day)
       IN  db' = [db EXCEPT
                    !.regulations[call.regulation_id] = flush(@, call.row, after),
                    !.logs = Append(@, VerificationLog(call.regulation_id, call.was_found,
                                                       call.row.confidence_score,
                                                       after.confidence_score)),
                    !.handles[h] = NoCall,
                    !.last = [name |-> "verification_commit"]]
    /\ UNCHANGED <<core, http, history, ui, op, conv, threads>>

MaxChanges == 2

\* keyword arguments a caller of update_regulation passes
UpdateArgs == { [confidence_score |-> 15], [official_url |-> "gov"],
                [is_verified |-> TRUE, is_mandatory |-> TRUE] }

update_regulation(regulation_id, kwargs) ==
    /\ db.changes < MaxChanges
    /\ db' = [db EXCEPT !.changes = @ + 1,
                        !.regulations[regulation_id] =
                            IF @ = NULL THEN @
                            ELSE [c \in Columns |-> IF c \in DOMAIN kwargs
                                                    THEN kwargs[c] ELSE @[c]],
                        !.last = [name |-> "update_regulation"]]
    /\ UNCHANGED <<core, http, history, ui, op, conv, threads>>

delete_regulation(regulation_id) ==
    /\ db.changes < MaxChanges
    /\ db' = [db EXCEPT !.changes = @ + 1,
                        !.regulations[regulation_id] =
                            IF @ = NULL THEN @ ELSE [@ EXCEPT !.is_active = FALSE],
                        !.last = [name |-> "delete_regulation"]]
    /\ UNCHANGED <<core, http, history, ui, op, conv, threads>>

update_confidence(regulation_id) ==
    /\ db.changes < MaxChanges
    /\ LET regulation == db.regulations[regulation_id]
       IN  db' = [db EXCEPT !.changes = @ + 1,
                           !.regulations[regulation_id] =
                               IF regulation = NULL THEN NULL
                               ELSE [regulation EXCEPT !.confidence_score =
                                        calculate_confidence(regulation, db.day)],
                           !.last = [name |-> "update_confidence",
                                     regulation_id |-> regulation_id]]
    /\ UNCHANGED <<core, http, history, ui, op, conv, threads>>

NextDbOps ==
    \/ \E source \in Sources, official_url \in {"none", "other"} :
          add_regulation("a", source, official_url, FALSE)
    \/ \E regulation_id \in RegulationIds, kwargs \in UpdateArgs :
          update_regulation(regulation_id, kwargs)
    \/ \E regulation_id \in RegulationIds : delete_regulation(regulation_id)
    \/ \E regulation_id \in RegulationIds : update_confidence(regulation_id)
    \/ \E regulation_id \in RegulationIds, was_found \in BOOLEAN :
          record_verification(regulation_id, was_found)

SpecDbOps == InitDb /\ [][NextDbOps]_vars

\* calculate_confidence on rows of every kind: the row is drawn at the start
MaxCount == 3

Ages == {0, 30, 31, 90, 91}

Rows ==
    { [RegulationBaseline("a", source, official_url, FALSE) EXCEPT
          !.last_found_at = last_found_at,
          !.found_count = found_count,
          !.not_found_count = not_found_count] :
        source \in Sources, official_url \in OfficialUrls,
        last_found_at \in {NOT_SET, At(0)},
        found_count \in 0..MaxCount, not_found_count \in 0..MaxCount }

InitConfidence ==
    /\ CoreInit
    /\ http = NoHttp
    /\ history = <<>>
    /\ ui = NoUi
    /\ op = NoOp
    /\ conv = NoConv
    /\ threads = NoThreads
    /\ \E row \in Rows, day \in Ages :
          db = [NoDb EXCEPT !.regulations[1] = row, !.day = day]

NextConfidence == \E regulation_id \in RegulationIds : update_confidence(regulation_id)

SpecConfidence == InitConfidence /\ [][NextConfidence]_vars

---------------------------------------------------------------------------
(* The scheduled verifier: src/database/verifier.py.  A result's error is ""
   while the code holds None. *)

MaxCandidates == 2

DaysThresholds == {30}

\* what the search function does for a probe: it returns JSON with status success
\* and a result list (a result's title may be null) or with status error, with
\* or without a message, or it raises
Probes == { [status |-> "success", results |-> 2, title |-> "t"],
            [status |-> "raise", error |-> "timeout"],
            [status |-> "success", results |-> 1, title |-> "null"],
            [status |-> "success", results |-> 0],
            [status |-> "error", error |-> "quota"],
            [status |-> "error"] }

\* sequences that list every element of S once
Perms(S) ==
    { o \in [1..Cardinality(S) -> S] :
        \A i, j \in 1..Cardinality(S) : i # j => o[i] # o[j] }

\* mutant: a row verified exactly at the threshold date is taken too
stale_at_threshold(regulations, today, days_threshold) ==
    { i \in DOMAIN regulations :
        /\ regulations[i] # NULL
        /\ regulations[i].is_active
        /\ \/ regulations[i].last_verified_at = NOT_SET
           \/ regulations[i].last_verified_at[1] <= today - days_threshold }

\* the rows the query of verify_stale matches
stale(regulations, today, days_threshold) ==
    { i \in DOMAIN regulations :
        /\ regulations[i] # NULL
        /\ regulations[i].is_active
        /\ \/ regulations[i].last_verified_at = NOT_SET
           \/ regulations[i].last_verified_at[1] < today - days_threshold }

\* ORDER BY is_mandatory DESC: any order with the mandatory rows first
by_mandatory(regulations, ids) ==
    { o \in Perms(ids) :
        \A i, j \in 1..Cardinality(ids) :
            (i < j /\ regulations[o[j]].is_mandatory) => regulations[o[i]].is_mandatory }

\* the result dictionary of verify_single after the search
probed(regulation_id, regulation, probe) ==
    LET start == [regulation_id |-> regulation_id, was_found |-> FALSE,
                  search_results_count |-> 0, top_result |-> FALSE,
                  old_confidence |-> regulation.confidence_score,
                  new_confidence |-> 0, error |-> NO_ERROR]
    IN  IF probe.status = "success"
        THEN IF probe.results = 0 THEN start
             ELSE IF probe.title = "null"
             THEN [start EXCEPT !.search_results_count = probe.results,
                                !.was_found = TRUE,
                                !.error = "NoneType is not subscriptable"]
             ELSE [start EXCEPT !.search_results_count = probe.results,
                                !.was_found = TRUE, !.top_result = TRUE]
        ELSE [start EXCEPT !.error = Get(probe, "error", "search failed")]

\* mutant: a failed recording leaves the result without an error
recorded_silently(result, log, failed) ==
    IF failed THEN result ELSE [result EXCEPT !.new_confidence = log.new_confidence]

\* the result dictionary after the call of record_verification
recorded(result, log, failed) ==
    IF failed THEN [result EXCEPT !.error = "record failed"]
    ELSE [result EXCEPT !.new_confidence = log.new_confidence]

\* mutant: a turn without a find counts under not_found, failed or not
counted_by_find(results, result) ==
    [results EXCEPT
        !.details = Append(@, result),
        !.verified = @ + 1,
        !.errors = @ + (IF result.error # NO_ERROR THEN 1 ELSE 0),
        !.found = @ + (IF result.error = NO_ERROR /\ result.was_found THEN 1 ELSE 0),
        !.not_found = @ + (IF ~result.was_found THEN 1 ELSE 0)]

\* the summary of verify_stale after one more result
counted(results, result) ==
    [results EXCEPT
        !.details = Append(@, result),
        !.verified = @ + 1,
        !.errors = @ + (IF result.error # NO_ERROR THEN 1 ELSE 0),
        !.found = @ + (IF result.error = NO_ERROR /\ result.was_found THEN 1 ELSE 0),
        !.not_found = @ + (IF result.error = NO_ERROR /\ ~result.was_found THEN 1 ELSE 0)]

\* verify_stale up to the start of its loop
verify_stale(days_threshold, max_count) ==
    /\ db.run = NoRun
    /\ \E o \in by_mandatory(db.regulations,
                               stale(db.regulations, db.day, days_threshold)) :
          LET stale_regulations == SubSeq(o, 1, Min(max_count, Len(o)))
          IN  db' = [db EXCEPT
                       !.last = [name |-> "verify_stale"],
                       !.run = [phase |-> IF stale_regulations = <<>>
                                          THEN "returned" ELSE "loop",
                                days_threshold |-> days_threshold,
                                max_count |-> max_count,
                                at |-> db.day,
                                before |-> db.regulations,
                                stale_regulations |-> stale_regulations,
                                probes |-> <<>>,
                                results |-> [total |-> Len(stale_regulations),
                                             verified |-> 0, found |-> 0,
                                             not_found |-> 0, errors |-> 0,
                                             details |-> <<>>]]]
    /\ UNCHANGED <<core, http, history, ui, op, conv, threads>>

\* one turn of the loop of verify_stale: verify_single on the next candidate,
\* with what the search returned and whether the store failed to record
verify_single(probe, failed) ==
    /\ db.run.phase = "loop"
    /\ LET regulation_id == db.run.stale_regulations[Len(db.run.results.details) + 1]
           regulation == db.regulations[regulation_id]
           result == probed(regulation_id, db.run.before[regulation_id], probe)
           after == verified(regulation, result.was_found, db.day)
           log == VerificationLog(regulation_id, result.was_found,
                                  regulation.confidence_score, after.confidence_score)
           results == counted(db.run.results, recorded(result, log, failed))
       IN  db' = [db EXCEPT
                    !.regulations[regulation_id] = IF failed THEN @ ELSE after,
                    !.logs = IF failed THEN @ ELSE Append(@, log),
                    !.last = [name |-> "verify_single"],
                    !.run.results = results,
                    !.run.probes = Append(@, [probe |-> probe, failed |-> failed]),
                    !.run.phase = IF results.verified = results.total
                                  THEN "returned" ELSE "loop"]
    /\ UNCHANGED <<core, http, history, ui, op, conv, threads>>

VerifierRows ==
    { [RegulationBaseline("a", "manual", "gov", is_mandatory) EXCEPT
          !.last_verified_at = last_verified_at] :
        is_mandatory \in BOOLEAN,
        last_verified_at \in {NOT_SET, At(DayStep), At(DayStep + 1)} }
    \cup { [RegulationBaseline("a", "manual", "gov", TRUE) EXCEPT !.is_active = FALSE] }

InitVerifier ==
    /\ CoreInit
    /\ http = NoHttp
    /\ history = <<>>
    /\ ui = NoUi
    /\ op = NoOp
    /\ conv = NoConv
    /\ threads = NoThreads
    /\ \E rows \in [RegulationIds -> VerifierRows] :
          db = [NoDb EXCEPT
                  !.regulations = [i \in RegulationIds |->
                                     [rows[i] EXCEPT !.name = <<"a", "b", "c">>[i]]],
                  !.day = 2 * DayStep]

NextVerifier ==
    \/ \E days_threshold \in DaysThresholds, max_count \in 1..MaxCandidates :
          verify_stale(days_threshold, max_count)
    \/ \E probe \in Probes, failed \in BOOLEAN : verify_single(probe, failed)

SpecVerifier == InitVerifier /\ [][NextVerifier]_vars

---------------------------------------------------------------------------
(* run_scheduled_verification called again and again by a scheduler, with the
   same arguments; the store records every verification *)

\* run_scheduled_verification: a new verifier, verify_stale up to its loop.
\* db.run.first keeps the rows that were stale when the first run started.
run_scheduled_verification(days_threshold, max_count) ==
    /\ db.run.phase \in {"none", "returned"}
    /\ db.run.phase = "returned"
          => /\ days_threshold = db.run.days_threshold
             /\ max_count = db.run.max_count
    /\ \E o \in by_mandatory(db.regulations,
                               stale(db.regulations, db.day, days_threshold)) :
          LET stale_regulations == SubSeq(o, 1, Min(max_count, Len(o)))
          IN  db' = [db EXCEPT
                       !.last = [name |-> "run_scheduled_verification"],
                       !.run = [phase |-> IF stale_regulations = <<>>
                                          THEN "returned" ELSE "loop",
                                days_threshold |-> days_threshold,
                                max_count |-> max_count,
                                at |-> db.day,
                                before |-> db.regulations,
                                stale_regulations |-> stale_regulations,
                                probes |-> <<>>,
                                results |-> [total |-> Len(stale_regulations),
                                             verified |-> 0, found |-> 0,
                                             not_found |-> 0, errors |-> 0,
                                             details |-> <<>>],
                                first |-> IF db.run.phase = "none"
                                          THEN stale(db.regulations, db.day,
                                                     days_threshold)
                                          ELSE db.run.first]]
    /\ UNCHANGED <<core, http, history, ui, op, conv, threads>>

\* a stale mandatory row, a stale one that is not mandatory, a row verified
\* within the threshold and a soft-deleted one
ScheduleRows ==
    { RegulationBaseline("a", "manual", "gov", TRUE),
      [RegulationBaseline("a", "manual", "gov", FALSE) EXCEPT
          !.last_verified_at = At(DayStep)],
      [RegulationBaseline("a", "manual", "gov", FALSE) EXCEPT
          !.last_verified_at = At(DayStep + 1)],
      [RegulationBaseline("a", "manual", "gov", TRUE) EXCEPT !.is_active = FALSE] }

\* a search that finds the regulation and one that fails
ScheduleProbes ==
    { probe \in Probes : probe.status = "error" \/ Get(probe, "title", "") = "t" }

InitSchedule ==
    /\ CoreInit
    /\ http = NoHttp
    /\ history = <<>>
    /\ ui = NoUi
    /\ op = NoOp
    /\ conv = NoConv
    /\ threads = NoThreads
    /\ \E rows \in [RegulationIds -> ScheduleRows] :
          db = [NoDb EXCEPT
                  !.regulations = [i \in RegulationIds |->
                                     [rows[i] EXCEPT !.name = <<"a", "b", "c">>[i]]],
                  !.day = 2 * DayStep]

NextSchedule ==
    \/ \E days_threshold \in DaysThresholds, max_count \in 1..MaxCandidates :
          run_scheduled_verification(days_threshold, max_count)
    \/ \E probe \in ScheduleProbes : verify_single(probe, FALSE)

SpecSchedule == InitSchedule /\ [][NextSchedule]_vars /\ WF_vars(NextSchedule)

NextDbHandles ==
    \/ \E source \in Sources, official_url \in OfficialUrls :
          add_regulation("a", source, official_url, FALSE)
    \/ \E h \in Handles, was_found \in BOOLEAN : verification_read(h, 1, was_found)
    \/ \E h \in Handles : verification_commit(h)
    \/ days_pass

SpecDbHandles == InitDb /\ [][NextDbHandles]_vars

NextDb ==
    \/ \E source \in Sources, official_url \in OfficialUrls :
          add_regulation("a", source, official_url, FALSE)
    \/ \E regulation_id \in RegulationIds, was_found \in BOOLEAN :
          record_verification(regulation_id, was_found)
    \/ days_pass

SpecDb == InitDb /\ [][NextDb]_vars

---------------------------------------------------------------------------
(* The tool registry: src/agents/tool_executor.py and the tools it runs *)

TOOL_REGISTRY == {"web_search", "search_tw_laws", "fetch_tw_law_content",
                  "fetch_webpage", "fetch_pdf_content", "search_jp_laws",
                  "search_eu_laws"}

ToolNames == TOOL_REGISTRY \cup {"nonexistent_tool"}

\* the one parameter without a default of each tool
required(name) ==
    CASE name \in {"fetch_webpage", "fetch_pdf_content"} -> "url"
      [] name = "fetch_tw_law_content" -> "pcode"
      [] OTHER -> "query"

ArgumentSets ==
    { <<>>, [query |-> "q"], [pcode |-> "I0050021"], [query |-> "q", junk |-> "x"],
      [url |-> URL("https", "example.com", "/law.pdf")],
      [url |-> URL("http", "192.168.1.1", "/law.pdf")] }

\* func(**arguments) raises a TypeError: a parameter is missing or unknown
bad_arguments(name, arguments) ==
    \/ required(name) \notin DOMAIN arguments
    \/ DOMAIN arguments # {required(name)}

\* what happens inside the tool: the remote side answers, the remote side fails
\* (an HTTP error status or a network error), or something else raises
Outcomes == {"ok", "remote_failure", "exception"}

\* the status of the JSON document the tool function returns
tool_status(name, arguments, outcome) ==
    CASE name = "web_search" ->
            IF outcome = "ok" THEN "success" ELSE "error"
      [] name = "search_tw_laws" ->
            IF outcome = "exception" THEN "error" ELSE "success"
      [] name = "fetch_tw_law_content" ->
            IF outcome = "ok" THEN "success"
            ELSE IF outcome = "remote_failure" THEN "failed" ELSE "error"
      [] name \in {"fetch_webpage", "fetch_pdf_content"} ->
            IF ~_validate_url(arguments.url).ok THEN "error"
            ELSE IF outcome = "ok" THEN "success" ELSE "error"
      [] name = "search_jp_laws" ->
            IF outcome = "exception" THEN "error" ELSE "success"
      [] name = "search_eu_laws" ->
            IF outcome = "ok" THEN "success" ELSE "error"

\* the JSON document execute_tool returns
executed(name, arguments, outcome) ==
    IF name \notin TOOL_REGISTRY
    THEN [status |-> "error", error |-> "unknown tool", available_tools |-> TOOL_REGISTRY]
    ELSE IF bad_arguments(name, arguments)
    THEN [status |-> "error", error |-> "bad arguments", tool |-> name,
          provided_arguments |-> arguments]
    ELSE [status |-> tool_status(name, arguments, outcome)]

execute_tool(name, arguments, outcome) ==
    /\ http.pending = NULL
    /\ http' = [tool |-> name, url |-> NULL, pending |-> NULL, requested |-> <<>>,
                result |-> executed(name, arguments, outcome),
                arguments |-> arguments, outcome |-> outcome]
    /\ UNCHANGED <<core, history, ui, op, db, conv, threads>>

InitTools == Init

NextTools ==
    \E name \in ToolNames, arguments \in ArgumentSets, outcome \in Outcomes :
        execute_tool(name, arguments, outcome)

SpecTools == InitTools /\ [][NextTools]_vars

---------------------------------------------------------------------------
(* get_llm: the client shared by the agent nodes, under concurrent callers *)

MaxGets == 2
MaxResets == 1

Threads == {"t1", "t2"}

\* everything of the pipeline but _llm_instance
pipeline == <<now, cache, web, pc, args, state, current_node, final_state,
              stream, nodes_run, llm_invoked, r, v>>

\* the module globals after a step of a thread
globals(next) ==
    /\ threads' = next
    /\ llm_instance' = (next.instance # 0)
    /\ UNCHANGED <<pipeline, aux_but_threads>>

\* mutant: the check under the lock left out
checked_once(instance) == FALSE

\* line 68: if _llm_instance is not None
checked_again(instance) == instance # 0

\* a caller enters get_llm
get_llm(t) ==
    /\ threads.pc[t] = "idle"
    /\ threads.calls[t] < MaxGets
    /\ globals([threads EXCEPT !.pc[t] = "line63", !.calls[t] = @ + 1,
                               !.outcome[t] = "none", !.got[t] = 0])

\* lines 63: the check without the lock
first_check(t) ==
    /\ threads.pc[t] = "line63"
    /\ globals([threads EXCEPT !.pc[t] = IF threads.instance # 0
                                         THEN "line64" ELSE "line67"])

\* line 64: return _llm_instance
first_return(t) ==
    /\ threads.pc[t] = "line64"
    /\ globals([threads EXCEPT !.pc[t] = "idle", !.outcome[t] = "returned",
                               !.got[t] = threads.instance,
                               !.returned = @ \cup {threads.instance}])

\* line 67: with _llm_lock
acquire(t) ==
    /\ threads.pc[t] = "line67"
    /\ threads.lock = "free"
    /\ globals([threads EXCEPT !.pc[t] = "line68", !.lock = t])

\* line 68: the check under the lock
second_check(t) ==
    /\ threads.pc[t] = "line68"
    /\ globals([threads EXCEPT !.pc[t] = IF checked_again(threads.instance)
                                         THEN "line69" ELSE "line71"])

\* lines 71-87: read the configuration, raise without it, else build the client
construct(t, configured) ==
    /\ threads.pc[t] = "line71"
    /\ IF configured
       THEN globals([threads EXCEPT
                !.pc[t] = "line89",
                !.instance = threads.constructed + 1,
                !.constructed = @ + 1,
                !.built_after_raise = @ \/ threads.raises > 0])
       ELSE globals([threads EXCEPT !.pc[t] = "idle", !.outcome[t] = "raised",
                                    !.raises = @ + 1, !.lock = "free"])

\* lines 69 and 89: return _llm_instance, leaving the with block
locked_return(t) ==
    /\ threads.pc[t] \in {"line69", "line89"}
    /\ globals([threads EXCEPT !.pc[t] = "idle", !.outcome[t] = "returned",
                               !.got[t] = threads.instance,
                               !.returned = @ \cup {threads.instance},
                               !.lock = "free"])

reset_llm ==
    /\ threads.lock = "free"
    /\ threads.resets < MaxResets
    /\ globals([threads EXCEPT !.instance = 0, !.resets = @ + 1])

InitLlm == Init

NextLlm ==
    \/ \E t \in Threads :
          \/ get_llm(t)
          \/ first_check(t)
          \/ first_return(t)
          \/ acquire(t)
          \/ second_check(t)
          \/ \E configured \in BOOLEAN : construct(t, configured)
          \/ locked_return(t)
    \/ reset_llm

SpecLlm == InitLlm /\ [][NextLlm]_vars

---------------------------------------------------------------------------
(* Direct calls of the QueryHistory methods: src/utils/history.py *)

MaxAdds == 2

Adds == Get(op, "adds", 0)

history_add(query, result, item_id) ==
    /\ Adds < MaxAdds
    /\ history' = QueryHistory_add(history, query, result, now, item_id)
    /\ op' = [name |-> "history_add", query |-> query, result |-> result,
              at |-> now, before |-> history, returned |-> item_id,
              adds |-> Adds + 1]
    /\ UNCHANGED <<core, http, ui, db, conv, threads>>

history_delete(item_id) ==
    /\ history' = QueryHistory_delete(history, item_id)
    /\ op' = [name |-> "history_delete", before |-> history,
              returned |-> (Len(history') < Len(history)), adds |-> Adds]
    /\ UNCHANGED <<core, http, ui, db, conv, threads>>

history_clear_all ==
    /\ history' = <<>>
    /\ op' = [name |-> "history_clear_all", before |-> history,
              returned |-> Len(history), adds |-> Adds]
    /\ UNCHANGED <<core, http, ui, db, conv, threads>>

InitHistory == InitUI

NextHistory ==
    \/ \E query \in CacheQueries, result \in Payloads, item_id \in ItemIds :
          history_add(query, result, item_id)
    \/ \E item_id \in ItemIds \cup {"i0"} : history_delete(item_id)
    \/ history_clear_all
    \/ Tick

SpecHistory == InitHistory /\ [][NextHistory]_vars

---------------------------------------------------------------------------
(* Two queries completing at the same time: QueryHistory.add from two threads *)

Adders == {"a1", "a2"}

NoAdd == [pc |-> "idle"]

\* lines 62-75: history = self._load() and the item to insert
add_load(t, query, result, item_id) ==
    /\ op.name = "adders"
    /\ op.adds[t].pc = "idle"
    /\ op' = [op EXCEPT !.adds[t] = [pc |-> "loaded", loaded |-> history,
                                    query |-> query, result |-> result,
                                    item_id |-> item_id, at |-> now]]
    /\ UNCHANGED <<core, http, history, ui, db, conv, threads>>

\* lines 78-85: insert, truncate, self._save(history)
add_save(t) ==
    /\ op.name = "adders"
    /\ op.adds[t].pc = "loaded"
    /\ LET call == op.adds[t]
       IN  history' = QueryHistory_add(call.loaded, call.query, call.result,
                                       call.at, call.item_id)
    /\ op' = [op EXCEPT !.adds[t].pc = "done"]
    /\ UNCHANGED <<core, http, ui, db, conv, threads>>

InitAdders ==
    /\ CoreInit
    /\ http = NoHttp
    /\ ui = NoUi
    /\ db = NoDb
    /\ conv = NoConv
    /\ threads = NoThreads
    /\ history \in {<<>>, <<OldItem>>, FullHistory}
    /\ op = [name |-> "adders", start |-> history, adds |-> [t \in Adders |-> NoAdd]]

NextAdders ==
    \E t \in Adders :
       \/ \E query \in CacheQueries, result \in Payloads, item_id \in ItemIds :
             add_load(t, query, result, item_id)
       \/ add_save(t)

SpecAdders == InitAdders /\ [][NextAdders]_vars

---------------------------------------------------------------------------
(* The conversation window: src/utils/conversation.py *)

MaxTurns == 2
MaxMessages == 5

Contents == {"m1", "m2"}

ConversationTurn(role, content) == [role |-> role, content |-> content]

\* the Python slice h[-m:]: the last m items, and the whole list when m is 0
\* (-0 is 0, so the slice starts at the first item)
slice_from_minus(h, m) ==
    IF m = 0 THEN h
    ELSE IF m >= Len(h) THEN h
    ELSE SubSeq(h, Len(h) - m + 1, Len(h))

_trim(max_turns, h) ==
    LET max_messages == max_turns * 2
    IN  IF Len(h) > max_messages THEN slice_from_minus(h, max_messages) ELSE h

ConversationHistory(max_turns) ==
    /\ ~conv.open
    /\ conv' = [max_turns |-> max_turns, history |-> <<>>, appended |-> <<>>,
                open |-> TRUE]
    /\ UNCHANGED <<core, http, history, ui, op, db, threads>>

add_message(role, content) ==
    /\ conv.open
    /\ Len(conv.appended) < MaxMessages
    /\ conv' = [conv EXCEPT
                  !.history = _trim(conv.max_turns,
                                    Append(@, ConversationTurn(role, content))),
                  !.appended = Append(@, ConversationTurn(role, content))]
    /\ UNCHANGED <<core, http, history, ui, op, db, threads>>

add_user_message(content) == add_message("user", content)

add_assistant_message(content) == add_message("assistant", content)

conversation_clear ==
    /\ conv.open
    /\ conv.appended # <<>>
    /\ conv' = [conv EXCEPT !.history = <<>>, !.appended = <<>>]
    /\ UNCHANGED <<core, http, history, ui, op, db, threads>>

InitConv == Init

NextConv ==
    \/ \E max_turns \in 0..MaxTurns : ConversationHistory(max_turns)
    \/ \E content \in Contents : add_user_message(content)
    \/ \E content \in Contents : add_assistant_message(content)
    \/ conversation_clear

SpecConv == InitConv /\ [][NextConv]_vars

---------------------------------------------------------------------------
(* Claims *)

NodeOrders ==
    { <<>>, <<"planner">>, <<"planner", "researcher">>,
      <<"planner", "researcher", "validator">> }

Starts(node) == nodes_run' = Append(nodes_run, node)

\* C1: in every run of the graph the Planner runs first and exactly once; the
\* Researcher starts only after the Planner has finished with status
\* ready_to_search, no clarification needed and no error; the Validator starts
\* only after the Researcher has finished; after a Planner that asks for
\* clarification or fails, neither of the two runs.
C1_NodeOrder ==
    /\ [](nodes_run \in NodeOrders)
    /\ [](pc = "finish" => Len(nodes_run) >= 1)
    /\ []((state.clarification_needed \/ state.error # NO_ERROR)
             => nodes_run \in { <<>>, <<"planner">> })
    /\ [][Starts("researcher")
             => /\ current_node = "planner"
                /\ state.status = "ready_to_search"
                /\ ~state.clarification_needed
                /\ state.error = NO_ERROR]_vars
    /\ [][Starts("validator")
             => /\ current_node = "researcher"
                /\ state.status = "ready_to_validate"]_vars

C1_Witness ==
    /\ pc = "done"
    /\ nodes_run = <<"planner", "researcher", "validator">>
    /\ state.status = "completed"


\* what the caller of QueryCache.get can observe of an entry's age
WithinTTL(entry) == entry # NULL /\ now - entry.timestamp <= TTL_HOURS

\* a step that is a call of process_query: it starts from idle and no time passes
IsCall == Idle /\ now' = now

CalledKey == _make_key(cache_key_query(args'.query), args'.jurisdiction)

\* C2: a call of process_query with skip_cache = false whose key has a cache
\* entry of age within the TTL runs no node and never invokes the LLM; its
\* stream ends with the cached report tagged from_cache = true.
C2_CacheHit ==
    [][(IsCall /\ ~args'.skip_cache /\ WithinTTL(cache[CalledKey]))
          => /\ pc' = "done"
             /\ nodes_run' = <<>>
             /\ ~llm_invoked'
             /\ Last(stream').payload =
                   [cache[CalledKey].result EXCEPT !.from_cache = TRUE]
             /\ cache' = cache]_vars

C2_Witness ==
    /\ pc = "done"
    /\ ~args.skip_cache
    /\ Last(stream).msg = "final_cached"
    /\ Last(stream).payload.from_cache
    /\ nodes_run = <<>>
    /\ ~llm_invoked
    /\ \E key \in CacheKeys :
          cache[key] # NULL /\ now - cache[key].timestamp = TTL_HOURS

\* C3: a run whose Planner ended with status = error ends with a final error
\* event and yields no envelope with status "success".
C3_PlannerErrorEndsInErrorEvent ==
    (pc = "done" /\ state.status = "error")
        => /\ Last(stream).msg = "error"
           /\ Last(stream).payload.status = "error"

Nonempty(list) == list # <<>>

AllJson(outcomes) == \A i \in 1..Len(outcomes) : outcomes[i] = "json"

FollowUps(n) ==
    IF n = 0 THEN <<>>
    ELSE IF n = 1 THEN <<"ai", "human_fix_json">>
    ELSE <<"ai", "human_fix_json", "ai", "human_fix_json">>

C5_ShellOnlyAfterThreeAttempts ==
    (pc = "validator_event" /\ state.status = "completed"
        /\ state.validated_results.validation_result = "error")
        => v.attempt = 3

Envelopes == { i \in 1..Len(stream) :
                  /\ stream[i].payload # NULL
                  /\ stream[i].payload.status = "success" }

FullDisclaimer(report) ==
    /\ "disclaimer" \in DOMAIN report
    /\ report.disclaimer # NULL
    /\ {"zh", "en"} \subseteq DOMAIN report.disclaimer

\* C7: every envelope with status "success" in the stream of a call, fresh or
\* from the cache, carries a report whose disclaimer is not null and has both a
\* zh and an en key.
C7_SuccessHasDisclaimer ==
    \A i \in Envelopes : FullDisclaimer(stream[i].payload.regulations)

\* C8: the serialized search results in the Validator's prompt have at most
\* TARGET_TOTAL_CHARS characters.
C8_BodyWithinBudget ==
    pc \in {"v_loop", "validator_event"} => v.body_chars <= 150000

\* C9: a Researcher run invokes the LLM at most 15 times; a loop that no break
\* ended has made exactly 15 invocations; after a response without tool calls
\* the loop is over; and an invocation happens only when every tool call of the
\* previous response has completed.
C9_SearchLoopBound ==
    /\ [](r.iteration <= 15)
    /\ []((pc \in {"r_post", "r_fetch", "researcher_event"} /\ r.stopped = "")
             => r.iteration = 15)
    /\ [](r.stopped = "no_tool_calls" => (pc # "r_loop" /\ r.pending = 0))
    /\ [][r'.iteration # r.iteration
             => /\ r'.iteration = r.iteration + 1
                /\ r.pending = 0
                /\ r.stopped = ""]_vars

C9_Witness ==
    /\ pc = "r_post"
    /\ r.iteration = 15
    /\ r.stopped = ""
    /\ r.findings # <<>>

\* the URL of a found item: url, else href, else source_url; "" when it has none
UrlOf(item) ==
    IF "url" \in DOMAIN item /\ item.url # "" THEN item.url
    ELSE IF "href" \in DOMAIN item /\ item.href # "" THEN item.href
    ELSE IF "source_url" \in DOMAIN item THEN item.source_url
    ELSE ""

\* the found item a search result was made of
Found(result, finding) == \A key \in DOMAIN finding : result[key] = finding[key]

FirstWith(findings, url) ==
    CHOOSE k \in 1..Len(findings) :
        /\ UrlOf(findings[k]) = url
        /\ \A m \in 1..(k - 1) : UrlOf(findings[m]) # url

Count(s, P(_)) == Cardinality({ i \in 1..Len(s) : P(s[i]) })

NoUrl(item) == UrlOf(item) = ""

\* C10: after a Researcher run no two search results that have a URL share it;
\* for each URL found the result is the first finding with it; and every
\* finding without a URL is among the results.
C10_NoDuplicateUrl ==
    pc = "researcher_event" =>
        LET results == state.search_results
            urls == { UrlOf(r.findings[k]) : k \in 1..Len(r.findings) } \ {""}
        IN  /\ \A i, j \in 1..Len(results) :
                  (i # j /\ UrlOf(results[i]) # "")
                      => UrlOf(results[i]) # UrlOf(results[j])
            /\ \A url \in urls :
                  \E i \in 1..Len(results) :
                      /\ UrlOf(results[i]) = url
                      /\ Found(results[i], r.findings[FirstWith(r.findings, url)])
            /\ Count(results, NoUrl) = Count(r.findings, NoUrl)

C10_Witness ==
    /\ pc = "researcher_event"
    /\ r.findings = <<ItemA, ItemB>>
    /\ Len(state.search_results) = 1


FetchedOrNot(item) ==
    /\ {"content_fetched", "full_content"} \subseteq DOMAIN item
    /\ \/ item.content_fetched = TRUE /\ item.full_content # NULL
       \/ item.content_fetched = FALSE /\ item.full_content = NULL

\* C11: after a Researcher run every search result has content_fetched = true
\* with a full_content that is not null, or content_fetched = false with a
\* null full_content.
C11_FetchedIffContent ==
    pc = "researcher_event" =>
        \A i \in 1..Len(state.search_results) : FetchedOrNot(state.search_results[i])

C11_Witness ==
    /\ pc = "researcher_event"
    /\ Len(state.search_results) = 51
    /\ state.search_results[1].content_fetched = TRUE
    /\ state.search_results[2].fetch_error = "no_url"
    /\ UrlOf(state.search_results[51]) = "u.pdf"
    /\ state.search_results[51].content_fetched = FALSE

\* C12: a search result whose enrichment worker ran longer than 60 s has
\* content_fetched = false, a null full_content and a timeout fetch_error.
C12_LateWorkerIsTimeout ==
    pc = "researcher_event" =>
        \A i \in 1..Len(state.search_results) :
            (\E item \in r.late : UrlOf(item) = UrlOf(state.search_results[i]))
                => /\ state.search_results[i].content_fetched = FALSE
                   /\ state.search_results[i].full_content = NULL
                   /\ state.search_results[i].fetch_error = "timeout"


\* C13: a fetch tool called with a URL that the guard rejects returns an error
\* result with the guard's reason and requests nothing, and every URL
\* requested during a call, redirects included, passes the guard.
C13_OnlyGuardedRequests ==
    /\ (http.url # NULL /\ ~_validate_url(http.url).ok)
          => /\ http.requested = <<>>
             /\ http.result = error_response(http.url, _validate_url(http.url).msg)
    /\ \A i \in 1..Len(http.requested) : _validate_url(http.requested[i]).ok


\* C14: a run whose final state has status error, and a run that ends in an
\* exception, write no entry to the Query Cache.
C14_NoWriteOnFailure ==
    [][/\ (pc = "finish" /\ final_state.status = "error") => cache' = cache
       /\ (~Idle /\ pc' = "done" /\ Last(stream').msg = "error") => cache' = cache]_vars

AskedToClarify == pc = "done" /\ state.clarification_needed

EndsWithQuestions ==
    /\ Last(stream).payload.status = "needs_clarification"
    /\ Last(stream).payload.questions = state.questions

\* C15 as stated: after a call in which the Planner asked for clarification the
\* stream ends with the needs_clarification payload carrying the questions and
\* the cache holds exactly the entries it held before the call.
C15_CacheUntouched ==
    AskedToClarify => (EndsWithQuestions /\ cache = args.cache_before)

CalledKeyOf(a) == _make_key(cache_key_query(a.query), a.jurisdiction)

\* C15 amended: after a call in which the Planner asked for clarification the
\* stream ends with the needs_clarification payload carrying the questions and
\* no entry was written: the cache is as before the call, except that the
\* initial cache read has evicted the called key's entry if it was older than
\* the TTL.
C15_NoWriteOnClarification ==
    AskedToClarify =>
        /\ EndsWithQuestions
        /\ \A key \in CacheKeys :
              \/ cache[key] = args.cache_before[key]
              \/ /\ cache[key] = NULL
                 /\ key = CalledKeyOf(args)
                 /\ ~args.skip_cache
                 /\ now - args.cache_before[key].timestamp > 24

C15_Witness ==
    /\ AskedToClarify
    /\ state.questions # <<>>
    /\ cache # args.cache_before


\* the last respond call has handed a fresh (not cached) final report to the user
FreshDelivered ==
    /\ ~ui.running
    /\ ui.calls > 0
    /\ pc = "done"
    /\ Last(stream).msg = "final"

WithAppendix(q) == { q \o <<SEP, "c1">>, q \o <<" ", SEP, "c1">> }

\* one query is the other one with a clarification appendix, or they are equal
Related(a, b) == a = b \/ a \in WithAppendix(b) \/ b \in WithAppendix(a)

\* C17: a query and the same query followed by the clarification appendix have
\* one cache key: a call for one is served the fresh report cached for the
\* other, and a successful run of one leaves no entry of the other behind.
C17_AppendixSameKey ==
    /\ [](\A q \in {<<"q1">>, <<" ", "q1">>, <<"q1", SEP, "c0">>} :
          \A full \in WithAppendix(q) :
             cache_key_query(full) = cache_key_query(q))
    /\ [][(IsCall /\ ~args'.skip_cache)
             => \A k \in CacheKeys :
                   (/\ WithinTTL(cache[k])
                    /\ cache[k].jurisdiction = args'.jurisdiction
                    /\ Related(cache[k].result.query, args'.query))
                      => /\ pc' = "done"
                         /\ Last(stream').payload =
                               [cache[k].result EXCEPT !.from_cache = TRUE]]_vars
    /\ [][(pc = "finish" /\ Last(stream').msg = "final")
             => \A k \in CacheKeys :
                   (/\ cache'[k] # NULL
                    /\ cache'[k].jurisdiction = args.jurisdiction
                    /\ Related(cache'[k].result.query, args.query))
                      => cache'[k].result = Last(stream').payload]_vars

C17_Witness ==
    /\ pc = "done"
    /\ Last(stream).msg = "final_cached"
    /\ args.query = <<"q1">>
    /\ Last(stream).payload.query = <<"q1", " ", SEP, "c1">>


OpKey == _make_key(op.query, op.jurisdiction)

\* an entry and its age when the last cache method was called
FreshAtCall(entry) == entry # NULL /\ op.at - entry.timestamp <= TTL_HOURS

\* C18: get returns the stored result exactly when the key has an entry of age
\* at most the TTL, else null; an entry older than the TTL is gone after the
\* get, and neither get nor list_all leaves or lists an entry older than it.
C18_GetFreshOnly ==
    /\ op.name = "get" =>
          /\ IF FreshAtCall(op.before[OpKey])
             THEN op.returned = op.before[OpKey].result /\ cache = op.before
             ELSE op.returned = NULL /\ cache[OpKey] = NULL
          /\ \A k \in CacheKeys \ {OpKey} : cache[k] = op.before[k]
    /\ op.name = "list_all" =>
          /\ op.returned = { k \in CacheKeys : FreshAtCall(op.before[k]) }
          /\ \A k \in CacheKeys : cache[k] # NULL => FreshAtCall(cache[k])

C18_Witness ==
    /\ op.name = "get"
    /\ op.before[OpKey] # NULL
    /\ op.at - op.before[OpKey].timestamp > TTL_HOURS
    /\ op.returned = NULL
    /\ cache[OpKey] = NULL

Recorded == db.last.name = "record_verification"

RowBefore == db.last.before.regulations[db.last.regulation_id]

RowAfter == db.regulations[db.last.regulation_id]

\* C20: a record_verification on a stored regulation raises exactly one of the
\* two counters by one (found_count iff found), stamps last_verified_at, moves
\* last_found_at only when found, stores the recomputed confidence, and appends
\* exactly one log row holding the confidence before and after; on an unknown
\* id it raises and leaves regulations and logs as they were.
C20_VerificationIsAUnit ==
    Recorded =>
        IF RowBefore = NULL
        THEN /\ db.last.raised
             /\ db.regulations = db.last.before.regulations
             /\ db.logs = db.last.before.logs
        ELSE /\ ~db.last.raised
             /\ RowAfter.found_count =
                    RowBefore.found_count + (IF db.last.was_found THEN 1 ELSE 0)
             /\ RowAfter.not_found_count =
                    RowBefore.not_found_count + (IF db.last.was_found THEN 0 ELSE 1)
             /\ RowAfter.last_verified_at = At(db.last.at)
             /\ RowAfter.last_found_at =
                    (IF db.last.was_found THEN At(db.last.at) ELSE RowBefore.last_found_at)
             /\ RowAfter.confidence_score = calculate_confidence(RowAfter, db.last.at)
             /\ \A i \in RegulationIds \ {db.last.regulation_id} :
                    db.regulations[i] = db.last.before.regulations[i]
             /\ Len(db.logs) = Len(db.last.before.logs) + 1
             /\ SubSeq(db.logs, 1, Len(db.last.before.logs)) = db.last.before.logs
             /\ Last(db.logs).regulation_id = db.last.regulation_id
             /\ Last(db.logs).was_found = db.last.was_found
             /\ Last(db.logs).old_confidence = RowBefore.confidence_score
             /\ Last(db.logs).new_confidence = RowAfter.confidence_score

C20_Witness ==
    /\ Recorded
    /\ RowBefore # NULL
    /\ ~db.last.was_found
    /\ RowBefore.last_found_at # NOT_SET
    /\ RowAfter.not_found_count = 3
    /\ RowAfter.confidence_score # RowBefore.confidence_score
    /\ Len(db.logs) = MaxVerifications


Quiet == \A h \in Handles : db.handles[h] = NoCall

LogsWhere(found) == { i \in 1..Len(db.logs) : db.logs[i].was_found = found }

Orders == { o \in [1..Len(db.logs) -> 1..Len(db.logs)] :
              \A i, j \in 1..Len(db.logs) : i # j => o[i] # o[j] }

\* the logs, taken in order o, chain from the confidence at add to the stored one
Chains(o, row) ==
    /\ db.logs[o[1]].old_confidence = (IF row.is_verified THEN 5 ELSE 3)
    /\ \A i \in 2..Len(db.logs) :
          db.logs[o[i]].old_confidence = db.logs[o[i - 1]].new_confidence
    /\ db.logs[o[Len(db.logs)]].new_confidence = row.confidence_score

\* C21: once every concurrent record_verification on regulation 1 has returned,
\* the row and the logs are those of some serial order of the calls: each
\* counter equals the number of calls of its kind, and the logs can be ordered
\* so that each old_confidence is the new_confidence of the one before.
C21_SerialOutcome ==
    (Quiet /\ db.logs # <<>>) =>
        /\ db.regulations[1].found_count = Cardinality(LogsWhere(TRUE))
        /\ db.regulations[1].not_found_count = Cardinality(LogsWhere(FALSE))
        /\ \E o \in Orders : Chains(o, db.regulations[1])


Stored == { i \in RegulationIds : db.regulations[i] # NULL }

\* C22: whatever add, update, delete, update_confidence and record_verification
\* calls were made, every stored confidence_score is within 0 and 1 (0 and 10
\* tenths).
C22_ConfidenceInRange ==
    \A i \in Stored : /\ db.regulations[i].confidence_score >= 0
                      /\ db.regulations[i].confidence_score <= 10


Recomputed == db.last.name = "update_confidence" /\ db.last.regulation_id = 1

AgeOfFind == db.day - db.regulations[1].last_found_at[1]

EverFound == db.regulations[1].last_found_at # NOT_SET

VerifiedPoints == IF db.regulations[1].is_verified THEN 3 ELSE 0

UrlPoints ==
    IF db.regulations[1].official_url = "gov" THEN 3
    ELSE IF db.regulations[1].official_url # "none" THEN 1 ELSE 0

RecencyPoints ==
    IF ~EverFound THEN 0
    ELSE IF AgeOfFind <= 30 THEN 2
    ELSE IF AgeOfFind <= 90 THEN 1
    ELSE 0 - 3

CountPoints ==
    (IF db.regulations[1].found_count >= 3 THEN 2 ELSE 0)
    - (IF db.regulations[1].not_found_count >= 3 THEN 2 ELSE 0)

Points == VerifiedPoints + UrlPoints + RecencyPoints + CountPoints

AddedAgain ==
    /\ db.last.name = "add_regulation"
    /\ \E i \in RegulationIds : /\ db.last.before[i] # NULL
                                /\ db.last.before[i].name = db.last.identity

\* C24: an add for an identity that is already stored changes nothing: the
\* rows are those before the call, the identity still has one row, and the
\* call returns the stored row, whatever other attributes it carried.
C24_AddIsIdempotent ==
    AddedAgain =>
        /\ db.regulations = db.last.before
        /\ Cardinality({ i \in Stored : db.regulations[i].name = db.last.identity }) = 1
        /\ db.last.returned = db.last.before[db.last.regulation_id]
        /\ db.last.returned.name = db.last.identity

C24_Witness ==
    /\ AddedAgain
    /\ ~db.regulations[1].is_active
    /\ db.regulations[1].official_url = "gov"
    /\ db.regulations[1].not_found_count = 1
    /\ db.regulations[2] = NULL


Returned == db.run.phase = "returned"

Summary == db.run.results

Turns == 1..Len(db.run.probes)

\* the search of turn k found something and nothing went wrong in the turn
CleanFind(k) ==
    /\ db.run.probes[k].probe.status = "success"
    /\ db.run.probes[k].probe.results > 0
    /\ db.run.probes[k].probe.title # "null"
    /\ ~db.run.probes[k].failed

\* the search of turn k or its recording failed
Failing(k) ==
    \/ db.run.probes[k].probe.status # "success"
    \/ db.run.probes[k].probe.results > 0 /\ db.run.probes[k].probe.title = "null"
    \/ db.run.probes[k].failed

\* C25: a scheduled run returns a summary with one detail per candidate, in
\* order, whatever failed on the way; total = verified = found + not_found +
\* errors; found counts the turns with a clean find, errors the failing turns,
\* not_found the rest; a failing turn's detail carries its error.
C25_RunCountsEveryCandidate ==
    Returned =>
        /\ Len(Summary.details) = Len(db.run.stale_regulations)
        /\ \A k \in Turns :
              Summary.details[k].regulation_id = db.run.stale_regulations[k]
        /\ Summary.total = Len(db.run.stale_regulations)
        /\ Summary.verified = Summary.total
        /\ Summary.total = Summary.found + Summary.not_found + Summary.errors
        /\ Summary.found = Cardinality({ k \in Turns : CleanFind(k) })
        /\ Summary.errors = Cardinality({ k \in Turns : Failing(k) })
        /\ \A k \in Turns : Failing(k) <=> Summary.details[k].error # NO_ERROR

C25_Witness ==
    /\ Returned
    /\ Summary.total = 2
    /\ db.run.probes[1].failed /\ db.run.probes[1].probe.status = "success"
    /\ CleanFind(2)
    /\ Summary.errors = 1 /\ Summary.found = 1

Candidates == db.run.stale_regulations

WasStale(i) ==
    /\ db.run.before[i].is_active
    /\ \/ db.run.before[i].last_verified_at = NOT_SET
       \/ db.run.before[i].last_verified_at[1] < db.run.at - db.run.days_threshold

Chosen == { Candidates[k] : k \in 1..Len(Candidates) }

\* C26: the candidates of a run are at most max_count different regulations,
\* each active and never verified or last verified before the threshold date,
\* the mandatory ones first and none left out in favour of a non-mandatory
\* one; only candidates are probed.
C26_CandidatesAreStale ==
    db.run # NoRun =>
        /\ Len(Candidates) <= db.run.max_count
        /\ Cardinality(Chosen) = Len(Candidates)
        /\ \A i \in Chosen : WasStale(i)
        /\ \A j, k \in 1..Len(Candidates) :
              (j < k /\ db.run.before[Candidates[k]].is_mandatory)
                  => db.run.before[Candidates[j]].is_mandatory
        /\ \A i \in RegulationIds \ Chosen :
              (WasStale(i) /\ db.run.before[i].is_mandatory)
                  => \A c \in Chosen : db.run.before[c].is_mandatory
        /\ \A k \in 1..Len(Summary.details) :
              Summary.details[k].regulation_id \in Chosen

C26_Witness ==
    /\ Returned
    /\ db.run.max_count = 2
    /\ Candidates = <<3, 1>>
    /\ ~db.run.before[1].is_mandatory
    /\ db.run.before[2].is_active
    /\ db.run.before[2].last_verified_at = At(db.run.at - db.run.days_threshold)
    /\ Len(Summary.details) = 2


Kept == Min(Len(conv.appended), 2 * conv.max_turns)

\* C27: a session with window max_turns that was given k messages holds
\* min(k, 2 * max_turns) of them: the last ones appended, in order.
C27_WindowOfLastMessages ==
    conv.open =>
        /\ Len(conv.history) = Kept
        /\ conv.history = SubSeq(conv.appended, Len(conv.appended) - Kept + 1,
                                 Len(conv.appended))


JustAdded == op.name = "history_add"

\* C28: the History Store never holds more than max_items entries and lists
\* them newest first; an add puts its entry first and keeps the earlier ones
\* in order, dropping only the last one when the list was full; get of the id
\* the add returned gives that entry.
C28_HistoryBoundedNewestFirst ==
    /\ Len(history) <= 50
    /\ \A i, j \in 1..Len(history) :
          i < j => history[i].timestamp >= history[j].timestamp
    /\ JustAdded =>
          /\ history[1].id = op.returned
          /\ history[1].full_query = op.query
          /\ history[1].result = op.result
          /\ history[1].timestamp = op.at
          /\ Len(history) = Min(Len(op.before) + 1, 50)
          /\ \A i \in 2..Len(history) : history[i] = op.before[i - 1]
          /\ QueryHistory_get(history, op.returned) = history[1]

C28_Witness ==
    /\ JustAdded
    /\ Len(op.before) = 50
    /\ op.before[1].id = op.returned
    /\ op.before[1].timestamp < op.at
    /\ op.before[50].id = "i0"
    /\ history[50].id = "i0"


Executed == "outcome" \in DOMAIN http

\* C29: a tool run through the registry returns a document whose status is
\* success or error, and it is error for an unknown tool name, for bad
\* arguments and whenever something failed inside the tool.
C29_ToolsReturnSuccessOrError ==
    Executed =>
        /\ http.result.status \in {"success", "error"}
        /\ (\/ http.tool \notin TOOL_REGISTRY
            \/ bad_arguments(http.tool, http.arguments)
            \/ http.outcome # "ok") => http.result.status = "error"

\* C30: for any interleaving of get_llm calls with no reset_llm in between, the
\* client is constructed at most once and every call that returns gets that
\* one instance; a call that raises for missing configuration leaves
\* _llm_instance None and the lock released, and a later call still builds it
NoReset == threads.resets = 0

RaisesIn(t) == threads.outcome[t] # "raised" /\ threads'.outcome[t] = "raised"

C30_OneClientForAllCallers ==
    /\ [](NoReset => /\ threads.constructed <= 1
                     /\ threads.returned \subseteq {1})
    /\ [][\A t \in Threads :
             RaisesIn(t) => /\ threads'.instance = 0
                          /\ threads'.lock = "free"]_vars

C30_Witness ==
    /\ NoReset
    /\ threads.built_after_raise
    /\ \E t, u \in Threads :
          /\ threads.pc[t] = "line69"
          /\ threads.got[u] = 1
          /\ threads.outcome[u] = "returned"

\* C31: when two queries complete concurrently and both call add, both entries
\* are in the stored list afterwards, capacity permitting, whatever the
\* interleaving of their load and save steps
BothAdded == \A t \in Adders : op.adds[t].pc = "done"

C31_NoAddIsLost ==
    (op.name = "adders" /\ BothAdded /\ Len(op.start) + 2 <= MAX_ITEMS)
        => Len(history) = Len(op.start) + 2

\* C32: a get running concurrently with a set of the same key returns null, the
\* previous result or the new result and never removes the entry written by
\* that set: after both finish the key holds the result of the set
RaceOver == Racing /\ op.get.pc = "done" /\ op.set.pc = "done"

C32_GetKeepsConcurrentSet ==
    RaceOver =>
        /\ ~op.get.raised
        /\ cache[op.key] \notin {NULL, TRUNCATED}
        /\ cache[op.key].result = op.set.result
        /\ ~Expired(cache[op.key], now)

\* C33: the Planner accepts a valid JSON plan inside a json-tagged fenced block,
\* inside an untagged fenced block or as bare content, and in each case ends
\* with status needs_clarification or ready_to_search, not error
ValidPlans == { val \in PlannerValues : IsObject(val) }

PlanForms(val) ==
    { <<FENCE_JSON, Json(val), FENCE>>, <<FENCE, Json(val), FENCE>>, <<Json(val)>> }

PlannerAnswered(resp) ==
    /\ pc = "planner"
    /\ pc' = "planner_event"
    /\ state' = planner_result(state, resp)

C33_PlannerAcceptsThreeForms ==
    [][\A val \in ValidPlans : \A content \in PlanForms(val) :
          PlannerAnswered(Response(content))
              => state'.status \in {"needs_clarification", "ready_to_search"}]_vars

\* C34: every process_query stream terminates and yields exactly one pair with
\* a non-null payload, which is the last pair of the stream (a clarification,
\* a final report or an error payload); all earlier pairs carry no payload
WithPayload == { i \in 1..Len(stream) : stream[i].payload # NULL }

Streaming == pc \notin {"idle", "done"}

OnePayloadLast ==
    /\ Streaming => WithPayload = {}
    /\ pc = "done" =>
          /\ WithPayload = {Len(stream)}
          /\ Last(stream).msg \in {"clarify", "final", "final_cached", "error"}

PhaseOrder ==
    << "planner_enter", "planner_done", "researcher_enter", "researcher_done",
       "validator_enter", "validator_done", "final" >>

Phases == { PhaseOrder[i] : i \in 1..Len(PhaseOrder) }

Emitted(msg) == \E i \in 1..Len(stream) : stream[i].msg = msg

PhasesEmitted ==
    LET IsPhase(pair) == pair.msg \in Phases
        pairs == SelectSeq(stream, IsPhase)
    IN  [i \in 1..Len(pairs) |-> pairs[i].msg]

Started(node) == \E i \in 1..Len(nodes_run) : nodes_run[i] = node

C35_PhaseEventsInOrder ==
    /\ (pc = "done" /\ nodes_run = <<"planner", "researcher", "validator">>
           /\ Emitted("final"))
          => PhasesEmitted = PhaseOrder
    /\ Started("planner") => Emitted("planner_enter")
    /\ Started("researcher") => Emitted("researcher_enter")
    /\ Started("validator") => Emitted("validator_enter")
    /\ Emitted("planner_done") => Started("researcher")
    /\ Emitted("researcher_done") => Started("validator")
    /\ Emitted("validator_done") => pc = "done"
    /\ Emitted("clarify")
          => ~\E msg \in {"researcher_enter", "researcher_done",
                          "validator_enter", "validator_done"} : Emitted(msg)

\* C36: for any completion order and any mix of successes, failures and
\* exceptions of the enrichment workers, search_results holds exactly one
\* record per deduplicated finding: each of the first TOP_N_TO_FETCH appears
\* once, enriched or marked failed with its own fetch_error, every later one
\* once with content_fetched = false, and a record depends on its own item only
AddedKeys == {"full_content", "content_fetched", "fetch_error", "content_type"}

Origin(result) == [key \in DOMAIN result \ AddedKeys |-> result[key]]

Times(s, x) == Cardinality({ i \in 1..Len(s) : s[i] = x })

OwnRecord(result) ==
    \/ /\ Get(result, "content_fetched", NULL) = TRUE
       /\ "fetch_error" \notin DOMAIN result
    \/ /\ Get(result, "content_fetched", NULL) = FALSE
       /\ Get(result, "fetch_error", "") \in
             IF UrlOf(result) = "" THEN {"no_url"} ELSE {"failed", "exception"}

C36_OneRecordPerFinding ==
    pc = "researcher_event" =>
        LET results == state.search_results
            unique == dedup(r.findings, {})
            n == Min(Len(unique), TOP_N_TO_FETCH)
            origins == [i \in 1..Len(results) |-> Origin(results[i])]
        IN  /\ Len(results) = Len(unique)
            /\ \A i \in 1..n :
                  /\ Times(SubSeq(origins, 1, n), unique[i])
                        = Times(SubSeq(unique, 1, n), unique[i])
                  /\ OwnRecord(results[i])
            /\ \A i \in (n + 1)..Len(results) :
                  /\ origins[i] = unique[i]
                  /\ Get(results[i], "content_fetched", NULL) = FALSE
                  /\ "fetch_error" \notin DOMAIN results[i]

C36_Witness ==
    /\ pc = "researcher_event"
    /\ r.findings = <<ItemA, ItemC>>
    /\ Len(state.search_results) = 2
    /\ Origin(state.search_results[1]) = ItemC
    /\ state.search_results[1].content_fetched = FALSE
    /\ state.search_results[1].fetch_error = "exception"
    /\ state.search_results[2].content_fetched = TRUE

\* C37: in every run the status of the agent state changes only along
\* starting -> needs_clarification | ready_to_search | error (Planner),
\* ready_to_search -> ready_to_validate (Researcher), ready_to_validate ->
\* completed (Validator); a Researcher or Validator entered with another status
\* leaves the state unchanged; every finished run ends with status
\* needs_clarification, completed or error
StatusSteps ==
    { <<"planner", "starting", "needs_clarification">>,
      <<"planner", "starting", "ready_to_search">>,
      <<"planner", "starting", "error">>,
      <<"researcher", "ready_to_search", "ready_to_validate">>,
      <<"validator", "ready_to_validate", "completed">> }

\* the node a step belongs to: the one entered last, this step included
RunningNode == IF nodes_run' = <<>> THEN "none" ELSE Last(nodes_run')

InRun == ~Idle /\ ~Idle'

C37_StatusLifecycle ==
    /\ [][(InRun /\ state'.status # state.status)
             => <<RunningNode, state.status, state'.status>> \in StatusSteps]_vars
    /\ [][(InRun /\ RunningNode = "researcher" /\ state.status # "ready_to_search")
             => state' = state]_vars
    /\ [][(InRun /\ RunningNode = "validator" /\ state.status # "ready_to_validate")
             => state' = state]_vars
    /\ []((pc = "done" /\ nodes_run # <<>>)
             => state.status \in {"needs_clarification", "completed", "error"})

\* C38: a degraded report (the Validator's error shell) is delivered in an
\* envelope with status success and written to the cache like a normal report,
\* so an identical query with skip_cache = false within the TTL is answered
\* from the cache with that degraded report and without any LLM call
Degraded(report) == Get(report, "validation_result", "") = "error"

Finishes == pc = "finish" /\ pc' = "done"

FinishedKey == _make_key(cache_key_query(args.query), args.jurisdiction)

C38_DegradedReportIsCached ==
    /\ [][(Finishes /\ Degraded(final_state.validated_results)
              /\ Last(stream').msg = "final")
             => /\ Last(stream').payload.status = "success"
                /\ Last(stream').payload.regulations = final_state.validated_results
                /\ cache'[FinishedKey] # NULL
                /\ cache'[FinishedKey].result = Last(stream').payload
                /\ cache'[FinishedKey].timestamp = now]_vars
    /\ [][(IsCall /\ ~args'.skip_cache /\ WithinTTL(cache[CalledKey])
              /\ Degraded(cache[CalledKey].result.regulations))
             => /\ pc' = "done"
                /\ Last(stream').payload.status = "success"
                /\ Last(stream').payload.from_cache
                /\ Last(stream').payload.regulations
                      = cache[CalledKey].result.regulations
                /\ nodes_run' = <<>>
                /\ ~llm_invoked']_vars

C38_Witness ==
    /\ pc = "done"
    /\ ~args.skip_cache
    /\ Last(stream).msg = "final_cached"
    /\ Last(stream).payload.status = "success"
    /\ Degraded(Last(stream).payload.regulations)
    /\ ~llm_invoked

\* C39: for every candidate the verifier processes record_verification is
\* called exactly once; when the probe fails (the search returns status error
\* or raises) the verification is recorded with found = false, so the
\* regulation's not_found_count grows by one and its confidence is recomputed,
\* although the summary counts the candidate under errors and not under not_found
Turn == db.run.phase = "loop" /\ Len(db'.run.probes) = Len(db.run.probes) + 1

TurnId == db.run.stale_regulations[Len(db'.run.probes)]

TurnProbe == Last(db'.run.probes)

ProbeFailed(probe) == probe.status \in {"error", "raise"}

C39_FailedProbeIsRecordedNotFound ==
    [][Turn =>
         LET before == db.regulations[TurnId]
             after == db'.regulations[TurnId]
         IN  /\ Len(db'.logs) = Len(db.logs) + (IF TurnProbe.failed THEN 0 ELSE 1)
             /\ ~TurnProbe.failed => Last(db'.logs).regulation_id = TurnId
             /\ (ProbeFailed(TurnProbe.probe) /\ ~TurnProbe.failed) =>
                   /\ Last(db'.logs).was_found = FALSE
                   /\ after.not_found_count = before.not_found_count + 1
                   /\ after.found_count = before.found_count
                   /\ after.last_verified_at = At(db.day)
                   /\ after.confidence_score = calculate_confidence(after, db.day)
                   /\ Last(db'.logs).new_confidence = after.confidence_score
                   /\ db'.run.results.errors = db.run.results.errors + 1
                   /\ db'.run.results.not_found = db.run.results.not_found
                   /\ db'.run.results.found = db.run.results.found]_vars

C39_Witness ==
    /\ db.last.name = "verify_single"
    /\ db.run.probes # <<>>
    /\ Last(db.run.probes).probe.status = "raise"
    /\ ~Last(db.run.probes).failed
    /\ Last(db.logs).was_found = FALSE
    /\ db.regulations[Last(db.logs).regulation_id].not_found_count = 1
    /\ Summary.errors = 1
    /\ Summary.not_found = 0

\* C40: when run_scheduled_verification is invoked repeatedly with a fixed
\* days_threshold and max_count >= 1, recordings succeed, no regulation is
\* added and none becomes stale again, every active regulation that is stale at
\* the first run is eventually verified in some run, and a regulation verified
\* in one run is not selected again by the following runs
VerifiedInARun(i) == \E k \in 1..Len(db.logs) : db.logs[k].regulation_id = i

StaleAtFirstRun(i) == db.run.phase # "none" /\ i \in db.run.first

RunStarts == db'.last.name = "run_scheduled_verification" /\ db'.run # db.run

AllVerified == \A i \in RegulationIds : StaleAtFirstRun(i) => VerifiedInARun(i)

C40_NoCandidateStarves ==
    /\ (db.run.phase # "none") ~> AllVerified
    /\ [][RunStarts =>
            \A k \in 1..Len(db'.run.stale_regulations) :
               ~VerifiedInARun(db'.run.stale_regulations[k])]_vars

C40_Witness ==
    /\ db.run.phase = "returned"
    /\ db.run.max_count = 1
    /\ Cardinality(db.run.first) = 3
    /\ \A i \in RegulationIds : VerifiedInARun(i)
    /\ Len(db.logs) = 3
    /\ ~db.run.before[db.run.stale_regulations[1]].is_mandatory

===========================================================================
